---- MODULE Spec2Model ----
(***************************************************************************)
(* A model of the Monkey interpreter core (vancanhuit/monkey): the Pratt   *)
(* parser of internal/parser/parser.go, the AST renderer of the ast        *)
(* package, the object model of internal/object/object.go and the          *)
(* tree-walking evaluator of internal/evaluator/evaluator.go.              *)
(*                                                                         *)
(* Representation notes.                                                   *)
(*  - A Go interface value that is nil is the record Nil (AST) or NilObj   *)
(*    (runtime object).  A nil slice is the empty sequence: the code only  *)
(*    ranges over and takes len of such slices.                            *)
(*  - A Go run-time panic (nil dereference, index out of range, integer    *)
(*    divide by zero) is the object Panic(msg); no function of the         *)
(*    evaluator recovers, so it unwinds every caller.                      *)
(*  - TLC cannot compare values of different kinds, so a field that holds  *)
(*    an integer in one variant and a string or boolean in another gets    *)
(*    one name per kind (IntValue, BoolValue, ...).                        *)
(*  - Integers are int64 in the code.  TLC integers are narrower, so the   *)
(*    model keeps every arithmetic result far inside the int64 range and   *)
(*    does not exercise wrap-around.                                       *)
(***************************************************************************)
EXTENDS Integers, Sequences, FiniteSets, TLC

VARIABLES
    pc,       \* position of the driver: "read", "parsed", "rejected", "done"
    input,    \* the token stream handed to the parser
    program,  \* the *ast.Program returned by ParseProgram (Nil before parsing)
    errors,   \* Parser.Errors()
    parsed,   \* the Parser object p of the driver and what ParseProgram returned
    result,   \* the object returned by Eval (NilObj before evaluation)
    heap,     \* the Environment frames allocated so far (index = reference)
    log,      \* ghost: the nodes handed to Eval, in call order
    calls,    \* ghost: the objects returned by applyFunction, in return order
    effects,  \* ghost: the frames before and after each call of a Function
    source    \* ghost: the abstract description the input was written from

vars == <<pc, input, program, errors, parsed, result, heap, log, calls, effects, source>>

\* the Parser object p of the driver
parser == parsed.p

(***************************************************************************)
(* Tokens                                                                  *)
(***************************************************************************)
Tok(type, literal) == [Type |-> type, Literal |-> literal]

ZeroToken == Tok("", "")
EOFToken == Tok("EOF", "")

\* keywords / LookupIdentifier: the type of a word read by the tokenizer
LookupIdentifier(identifier) ==
    CASE identifier = "fn" -> "FUNCTION"
      [] identifier = "let" -> "LET"
      [] identifier = "if" -> "IF"
      [] identifier = "else" -> "ELSE"
      [] identifier = "return" -> "RETURN"
      [] identifier = "true" -> "TRUE"
      [] identifier = "false" -> "FALSE"
      [] OTHER -> "IDENTIFIER"

\* token constructors used to write inputs
Word(w) == Tok(LookupIdentifier(w), w)
Sym(s) == Tok(s, s)
Num(n) == Tok("INTEGER", ToString(n))
Str(s) == Tok("STRING", s)

(***************************************************************************)
(* The tokenizer, by its output contract: the tokens of the input in       *)
(* order, then EOF for ever.                                               *)
(***************************************************************************)
NewLexer(toks) == [tokens |-> toks, position |-> 0]

LexerNextToken(l) ==
    IF l.position < Len(l.tokens)
    THEN [l |-> [l EXCEPT !.position = @ + 1], tok |-> l.tokens[l.position + 1]]
    ELSE [l |-> l, tok |-> EOFToken]

(***************************************************************************)
(* AST nodes                                                               *)
(***************************************************************************)
Nil == [Kind |-> "nil"]
IsNil(node) == node.Kind = "nil"

Program(stmts) == [Kind |-> "Program", Statements |-> stmts]
LetStatement(tok, name, value) ==
    [Kind |-> "LetStatement", Token |-> tok, Name |-> name, LetValue |-> value]
ReturnStatement(tok, value) ==
    [Kind |-> "ReturnStatement", Token |-> tok, ReturnValue |-> value]
ExpressionStatement(tok, expr) ==
    [Kind |-> "ExpressionStatement", Token |-> tok, Expression |-> expr]
BlockStatement(tok, stmts) ==
    [Kind |-> "BlockStatement", Token |-> tok, Statements |-> stmts]
Identifier(tok, value) == [Kind |-> "Identifier", Token |-> tok, Value |-> value]
IntegerLiteral(tok, value) ==
    [Kind |-> "IntegerLiteral", Token |-> tok, IntValue |-> value]
BooleanNode(tok, value) ==
    [Kind |-> "Boolean", Token |-> tok, BoolValue |-> value]
StringLiteral(tok, value) ==
    [Kind |-> "StringLiteral", Token |-> tok, Value |-> value]
PrefixExpression(tok, op, right) ==
    [Kind |-> "PrefixExpression", Token |-> tok, Operator |-> op, Right |-> right]
InfixExpression(tok, left, op, right) ==
    [Kind |-> "InfixExpression", Token |-> tok, Left |-> left,
     Operator |-> op, Right |-> right]
IfExpression(tok, cond, cons, alt) ==
    [Kind |-> "IfExpression", Token |-> tok, Condition |-> cond,
     Consequence |-> cons, Alternative |-> alt]
FunctionLiteral(tok, params, body) ==
    [Kind |-> "FunctionLiteral", Token |-> tok, Parameters |-> params, Body |-> body]
CallExpression(tok, function, args) ==
    [Kind |-> "CallExpression", Token |-> tok, Function |-> function,
     Arguments |-> args]
ArrayLiteral(tok, elements) ==
    [Kind |-> "ArrayLiteral", Token |-> tok, Elements |-> elements]
IndexExpression(tok, left, index) ==
    [Kind |-> "IndexExpression", Token |-> tok, Left |-> left, Index |-> index]
\* Pairs is a Go map keyed by node identity: here a sequence of <<key, value>>
\* in source order; the order a range statement visits them is not fixed.
HashLiteral(tok, pairs) ==
    [Kind |-> "HashLiteral", Token |-> tok, Pairs |-> pairs]

(***************************************************************************)
(* Parser                                                                  *)
(***************************************************************************)
LOWEST == 1
EQUALS == 2
LESS_GREATER == 3
SUM == 4
PRODUCT == 5
PREFIX == 6
CALL == 7

\* precedences[t] with the "not in the map" default of peekPrecedence/curPrecedence
precedences(t) ==
    CASE t = "==" -> EQUALS
      [] t = "!=" -> EQUALS
      [] t = "<" -> LESS_GREATER
      [] t = ">" -> LESS_GREATER
      [] t = "+" -> SUM
      [] t = "-" -> SUM
      [] t = "/" -> PRODUCT
      [] t = "*" -> PRODUCT
      [] t = "(" -> CALL
      [] OTHER -> LOWEST

peekPrecedence(p) == precedences(p.peekToken.Type)
curPrecedence(p) == precedences(p.curToken.Type)

\* mutant: the tokenizer is asked twice, so every other token is dropped
nextTokenSkipping(p) ==
    LET r == LexerNextToken(LexerNextToken(p.l).l)
    IN [p EXCEPT !.curToken = p.peekToken, !.peekToken = r.tok, !.l = r.l,
                 !.looks = Append(@, <<p.peekToken, r.tok>>)]

\* looks is a ghost field: curToken and peekToken as each nextToken left them
nextToken(p) ==
    LET r == LexerNextToken(p.l)
    IN [p EXCEPT !.curToken = p.peekToken, !.peekToken = r.tok, !.l = r.l,
                 !.looks = Append(@, <<p.peekToken, r.tok>>)]

peekError(p, t) ==
    [p EXCEPT !.errors = Append(@,
        "expected next token to be " \o t \o ", got " \o p.peekToken.Type \o " instead")]

noPrefixParseFnError(p, t) ==
    [p EXCEPT !.errors = Append(@, "no prefix parse function for " \o t \o " found")]

\* ghost: one iteration of a for loop of the parser ran from p to q; turns
\* holds the number of nextToken calls made before and after each iteration
\* (the loops around a nested parse write the same update in place)
turn(p, q) == [q EXCEPT !.turns = Append(@, <<Len(p.looks), Len(q.looks)>>)]

\* the Parser struct as New allocates it
NewParser(l) ==
    [l |-> l, errors |-> <<>>, curToken |-> ZeroToken, peekToken |-> ZeroToken,
     looks |-> <<>>, turns |-> <<>>]

\* the driver's variable p before parser.New has run
NoParser == NewParser(NewLexer(<<>>))

\* New: the two nextToken calls that fill curToken and peekToken
New(l) == nextToken(nextToken(NewParser(l)))

\* registerPrefix calls of New: the handler registered for a token type
prefixParseFns(t) ==
    CASE t = "IDENTIFIER" -> "parseIdentifier"
      [] t = "INTEGER" -> "parseIntegerLiteral"
      [] t = "!" -> "parsePrefixExpression"
      [] t = "-" -> "parsePrefixExpression"
      [] t = "TRUE" -> "parseBoolean"
      [] t = "FALSE" -> "parseBoolean"
      [] t = "(" -> "parseGroupedExpression"
      [] t = "IF" -> "parseIfExpression"
      [] t = "FUNCTION" -> "parseFunctionLiteral"
      [] t = "STRING" -> "parseStringLiteral"
      [] OTHER -> "nil"

\* registerInfix calls of New
infixParseFns(t) ==
    CASE t \in {"+", "-", "/", "*", "==", "!=", "<", ">"} -> "parseInfixExpression"
      [] t = "(" -> "parseCallExpression"
      [] OTHER -> "nil"

\* the largest integer literal the inputs use
MaxLiteral == 60

\* strconv.ParseInt(literal, 0, 64) on the digit strings the tokenizer yields.
\* Only decimal literals without a leading zero, up to MaxLiteral, are in the
\* inputs; any other text is reported as unparsable.
ParseInt(literal) ==
    IF \E n \in 0..MaxLiteral : ToString(n) = literal
    THEN [ok |-> TRUE, value |-> CHOOSE n \in 0..MaxLiteral : ToString(n) = literal]
    ELSE [ok |-> FALSE, value |-> 0]

\* The parse methods call each other recursively.  Every such call goes
\* through call, the one recursive operator of the parser: p_parseExpression
\* is the method call p.parseExpression(precedence), and so on.
RECURSIVE call(_, _, _)
p_parseExpression(p, precedence) == call("parseExpression", p, precedence)
p_parseStatement(p) == call("parseStatement", p, LOWEST)
p_parseBlockStatement(p) == call("parseBlockStatement", p, LOWEST)

parseIdentifier(p) == [p |-> p, node |-> Identifier(p.curToken, p.curToken.Literal)]

parseIntegerLiteral(p) ==
    LET r == ParseInt(p.curToken.Literal)
    IN IF ~r.ok
       THEN [p |-> [p EXCEPT !.errors = Append(@,
                       "could not parse \"" \o p.curToken.Literal \o "\" as integer")],
             node |-> Nil]
       ELSE [p |-> p, node |-> IntegerLiteral(p.curToken, r.value)]

parseBoolean(p) == [p |-> p, node |-> BooleanNode(p.curToken, p.curToken.Type = "TRUE")]

parseStringLiteral(p) == [p |-> p, node |-> StringLiteral(p.curToken, p.curToken.Literal)]

parsePrefixExpression(p) ==
    LET r == p_parseExpression(nextToken(p), PREFIX)
    IN [p |-> r.p, node |-> PrefixExpression(p.curToken, p.curToken.Literal, r.node)]

\* mutant: the right operand is parsed one level too low, so equal operators
\* group to the right
parseInfixExpressionRightAssoc(p, left) ==
    LET precedence == curPrecedence(p) - 1
        r == p_parseExpression(nextToken(p), precedence)
    IN [p |-> r.p,
        node |-> InfixExpression(p.curToken, left, p.curToken.Literal, r.node)]

parseInfixExpression(p, left) ==
    LET precedence == curPrecedence(p)
        r == p_parseExpression(nextToken(p), precedence)
    IN [p |-> r.p,
        node |-> InfixExpression(p.curToken, left, p.curToken.Literal, r.node)]

\* mutant: the closing parenthesis is checked but not consumed
parseGroupedExpressionUnclosed(p) ==
    LET r == p_parseExpression(nextToken(p), LOWEST)
    IN IF r.p.peekToken.Type # ")"
       THEN [p |-> peekError(r.p, r.p.peekToken.Type), node |-> Nil]
       ELSE [p |-> r.p, node |-> r.node]

parseGroupedExpression(p) ==
    LET r == p_parseExpression(nextToken(p), LOWEST)
    IN IF r.p.peekToken.Type # ")"
       THEN [p |-> peekError(r.p, r.p.peekToken.Type), node |-> Nil]
       ELSE [p |-> nextToken(r.p), node |-> r.node]

parseIfExpression(p) ==
    IF p.peekToken.Type # "("
    THEN [p |-> peekError(p, "("), node |-> Nil]
    ELSE
      LET c == p_parseExpression(nextToken(nextToken(p)), LOWEST)
      IN IF c.p.peekToken.Type # ")"
         THEN [p |-> peekError(c.p, ")"), node |-> Nil]
         ELSE
           LET p1 == nextToken(c.p)
           IN IF p1.peekToken.Type # "{"
              THEN [p |-> peekError(p1, "{"), node |-> Nil]
              ELSE
                LET cons == p_parseBlockStatement(nextToken(p1))
                IN IF cons.p.peekToken.Type = "ELSE"
                   THEN
                     LET p2 == nextToken(cons.p)
                     IN IF p2.peekToken.Type # "{"
                        THEN [p |-> peekError(p2, "{"), node |-> Nil]
                        ELSE
                          LET alt == p_parseBlockStatement(nextToken(p2))
                          IN [p |-> alt.p,
                              node |-> IfExpression(p.curToken, c.node,
                                                    cons.node, alt.node)]
                   ELSE [p |-> cons.p,
                         node |-> IfExpression(p.curToken, c.node, cons.node, Nil)]

\* the for loop of parseFunctionParameters
RECURSIVE parseFunctionParametersLoop(_, _)
parseFunctionParametersLoop(p, identifiers) ==
    IF p.peekToken.Type = ","
    THEN LET p1 == turn(p, nextToken(nextToken(p)))
         IN parseFunctionParametersLoop(p1,
                Append(identifiers, Identifier(p1.curToken, p1.curToken.Literal)))
    ELSE [p |-> p, list |-> identifiers]

parseFunctionParameters(p) ==
    IF p.peekToken.Type = ")"
    THEN [p |-> nextToken(p), list |-> <<>>]
    ELSE
      LET p1 == nextToken(p)
          r == parseFunctionParametersLoop(p1,
                   <<Identifier(p1.curToken, p1.curToken.Literal)>>)
      IN IF r.p.peekToken.Type # ")"
         THEN [p |-> peekError(r.p, ")"), list |-> <<>>]
         ELSE [p |-> nextToken(r.p), list |-> r.list]

parseFunctionLiteral(p) ==
    IF p.peekToken.Type # "("
    THEN [p |-> peekError(p, "("), node |-> Nil]
    ELSE
      LET params == parseFunctionParameters(nextToken(p))
      IN IF params.p.peekToken.Type # "{"
         THEN [p |-> peekError(params.p, "{"), node |-> Nil]
         ELSE
           LET body == p_parseBlockStatement(nextToken(params.p))
           IN [p |-> body.p,
               node |-> FunctionLiteral(p.curToken, params.list, body.node)]

RECURSIVE parseCallArgumentsLoop(_, _)
\* the for loop of parseCallArguments
parseCallArgumentsLoop(p, args) ==
    IF p.peekToken.Type = ","
    THEN LET r == p_parseExpression(nextToken(nextToken(p)), LOWEST)
         IN parseCallArgumentsLoop(
                [r.p EXCEPT !.turns = Append(@, <<Len(p.looks), Len(r.p.looks)>>)],
                Append(args, r.node))
    ELSE [p |-> p, list |-> args]

parseCallArguments(p) ==
    IF p.peekToken.Type = ")"
    THEN [p |-> nextToken(p), list |-> <<>>]
    ELSE
      LET first == p_parseExpression(nextToken(p), LOWEST)
          r == parseCallArgumentsLoop(first.p, <<first.node>>)
      IN IF r.p.peekToken.Type # ")"
         THEN [p |-> peekError(r.p, ")"), list |-> <<>>]
         ELSE [p |-> nextToken(r.p), list |-> r.list]

parseCallExpression(p, function) ==
    LET args == parseCallArguments(p)
    IN [p |-> args.p, node |-> CallExpression(p.curToken, function, args.list)]

\* prefix(): the call through the prefixParseFns table
callPrefix(fn, p) ==
    CASE fn = "parseIdentifier" -> parseIdentifier(p)
      [] fn = "parseIntegerLiteral" -> parseIntegerLiteral(p)
      [] fn = "parsePrefixExpression" -> parsePrefixExpression(p)
      [] fn = "parseBoolean" -> parseBoolean(p)
      [] fn = "parseGroupedExpression" -> parseGroupedExpression(p)
      [] fn = "parseIfExpression" -> parseIfExpression(p)
      [] fn = "parseFunctionLiteral" -> parseFunctionLiteral(p)
      [] fn = "parseStringLiteral" -> parseStringLiteral(p)

\* infix(leftExpr): the call through the infixParseFns table
callInfix(fn, p, left) ==
    CASE fn = "parseInfixExpression" -> parseInfixExpression(p, left)
      [] fn = "parseCallExpression" -> parseCallExpression(p, left)

RECURSIVE parseExpressionLoop(_, _, _)
\* the for loop of parseExpression
parseExpressionLoop(p, leftExpr, precedence) ==
    IF p.peekToken.Type # ";" /\ precedence < peekPrecedence(p)
    THEN
      LET infix == infixParseFns(p.peekToken.Type)
      IN IF infix = "nil"
         THEN [p |-> turn(p, p), node |-> leftExpr]
         ELSE LET r == callInfix(infix, nextToken(p), leftExpr)
              IN parseExpressionLoop(
                     [r.p EXCEPT !.turns = Append(@, <<Len(p.looks), Len(r.p.looks)>>)],
                     r.node, precedence)
    ELSE [p |-> p, node |-> leftExpr]

parseExpression(p, precedence) ==
    LET prefix == prefixParseFns(p.curToken.Type)
    IN IF prefix = "nil"
       THEN [p |-> noPrefixParseFnError(p, p.curToken.Type), node |-> Nil]
       ELSE LET left == callPrefix(prefix, p)
            IN parseExpressionLoop(left.p, left.node, precedence)

parseLetStatement(p) ==
    IF p.peekToken.Type # "IDENTIFIER"
    THEN [p |-> peekError(p, "IDENTIFIER"), node |-> Nil]
    ELSE
      LET p1 == nextToken(p)
          name == Identifier(p1.curToken, p1.curToken.Literal)
      IN IF p1.peekToken.Type # "="
         THEN [p |-> peekError(p1, "="), node |-> Nil]
         ELSE
           LET r == p_parseExpression(nextToken(nextToken(p1)), LOWEST)
           IN [p |-> IF r.p.peekToken.Type = ";" THEN nextToken(r.p) ELSE r.p,
               node |-> LetStatement(p.curToken, name, r.node)]

parseReturnStatement(p) ==
    LET r == p_parseExpression(nextToken(p), LOWEST)
    IN [p |-> IF r.p.peekToken.Type = ";" THEN nextToken(r.p) ELSE r.p,
        node |-> ReturnStatement(p.curToken, r.node)]

parseExpressionStatement(p) ==
    LET r == p_parseExpression(p, LOWEST)
    IN [p |-> IF r.p.peekToken.Type = ";" THEN nextToken(r.p) ELSE r.p,
        node |-> ExpressionStatement(p.curToken, r.node)]

parseStatement(p) ==
    CASE p.curToken.Type = "LET" -> parseLetStatement(p)
      [] p.curToken.Type = "RETURN" -> parseReturnStatement(p)
      [] OTHER -> parseExpressionStatement(p)

RECURSIVE parseBlockStatementLoop(_, _, _)
\* the for loop of parseBlockStatement
parseBlockStatementLoop(p, tok, stmts) ==
    IF p.curToken.Type # "}" /\ p.curToken.Type # "EOF"
    THEN LET r == p_parseStatement(p)
         IN parseBlockStatementLoop(
                [nextToken(r.p) EXCEPT
                   !.turns = Append(@, <<Len(p.looks), Len(nextToken(r.p).looks)>>)], tok,
                IF ~IsNil(r.node) THEN Append(stmts, r.node) ELSE stmts)
    ELSE [p |-> p, node |-> BlockStatement(tok, stmts)]

parseBlockStatement(p) == parseBlockStatementLoop(nextToken(p), p.curToken, <<>>)

\* the dispatch of a method call of the parser
call(method, p, precedence) ==
    CASE method = "parseExpression" -> parseExpression(p, precedence)
      [] method = "parseStatement" -> parseStatement(p)
      [] method = "parseBlockStatement" -> parseBlockStatement(p)

RECURSIVE ParseProgramLoopUntilError(_, _)
\* mutant: the loop ends at the first statement that fails to parse
ParseProgramLoopUntilError(p, stmts) ==
    IF p.curToken.Type # "EOF"
    THEN LET r == p_parseStatement(p)
         IN IF IsNil(r.node) \/ Len(r.p.errors) > 0
            THEN [p |-> r.p, node |-> Program(stmts)]
            ELSE ParseProgramLoopUntilError(
                     [nextToken(r.p) EXCEPT
                        !.turns = Append(@, <<Len(p.looks), Len(nextToken(r.p).looks)>>)],
                     Append(stmts, r.node))
    ELSE [p |-> p, node |-> Program(stmts)]

\* the for loop of ParseProgram
RECURSIVE ParseProgramLoop(_, _)
ParseProgramLoop(p, stmts) ==
    IF p.curToken.Type # "EOF"
    THEN LET r == p_parseStatement(p)
         IN ParseProgramLoop(
                [nextToken(r.p) EXCEPT
                   !.turns = Append(@, <<Len(p.looks), Len(nextToken(r.p).looks)>>)],
                IF ~IsNil(r.node) THEN Append(stmts, r.node) ELSE stmts)
    ELSE [p |-> p, node |-> Program(stmts)]

ParseProgram(p) == ParseProgramLoop(p, <<>>)

\* lexer.New, parser.New, ParseProgram: the tree and the diagnostics of a source
Parse(toks) == ParseProgram(New(NewLexer(toks)))

\* the driver before it has parsed a line
NotParsed == [p |-> NoParser, node |-> Nil]

(***************************************************************************)
(* Canonical rendering: the String methods of the ast package.  A String   *)
(* call on an absent child the code does not guard is a nil dereference;   *)
(* it renders as NilDeref (no tree parsed without diagnostics has one).    *)
(***************************************************************************)
NilDeref == "<nil dereference>"

RECURSIVE Join(_, _)
\* strings.Join
Join(strs, sep) ==
    IF Len(strs) = 0 THEN ""
    ELSE IF Len(strs) = 1 THEN strs[1]
    ELSE strs[1] \o sep \o Join(Tail(strs), sep)

RECURSIVE String(_), StringAll(_)
\* the concatenation of the String of each statement (Program, BlockStatement)
StringAll(stmts) ==
    IF Len(stmts) = 0 THEN "" ELSE String(stmts[1]) \o StringAll(Tail(stmts))

String(node) ==
    CASE node.Kind = "nil" -> NilDeref
      [] node.Kind = "Program" -> StringAll(node.Statements)
      [] node.Kind = "Identifier" -> node.Value
      [] node.Kind = "LetStatement" ->
            node.Token.Literal \o " " \o String(node.Name) \o " = "
            \o (IF ~IsNil(node.LetValue) THEN String(node.LetValue) ELSE "") \o ";"
      [] node.Kind = "ReturnStatement" ->
            node.Token.Literal \o " "
            \o (IF ~IsNil(node.ReturnValue) THEN String(node.ReturnValue) ELSE "")
            \o ";"
      [] node.Kind = "ExpressionStatement" ->
            IF ~IsNil(node.Expression) THEN String(node.Expression) ELSE ""
      [] node.Kind = "BlockStatement" -> StringAll(node.Statements)
      [] node.Kind = "IntegerLiteral" -> node.Token.Literal
      [] node.Kind = "PrefixExpression" ->
            "(" \o node.Operator \o String(node.Right) \o ")"
      [] node.Kind = "InfixExpression" ->
            "(" \o String(node.Left) \o " " \o node.Operator \o " "
            \o String(node.Right) \o ")"
      [] node.Kind = "Boolean" -> node.Token.Literal
      [] node.Kind = "IfExpression" ->
            "if" \o String(node.Condition) \o " " \o String(node.Consequence)
            \o (IF ~IsNil(node.Alternative)
                THEN "else " \o String(node.Alternative) ELSE "")
      [] node.Kind = "FunctionLiteral" ->
            node.Token.Literal \o "("
            \o Join([i \in 1..Len(node.Parameters) |-> String(node.Parameters[i])], ",")
            \o ")" \o String(node.Body)
      [] node.Kind = "CallExpression" ->
            String(node.Function) \o "("
            \o Join([i \in 1..Len(node.Arguments) |-> String(node.Arguments[i])], ", ")
            \o ")"
      [] node.Kind = "StringLiteral" -> node.Token.Literal
      [] node.Kind = "ArrayLiteral" ->
            "[" \o Join([i \in 1..Len(node.Elements) |-> String(node.Elements[i])], ", ")
            \o "]"
      [] node.Kind = "IndexExpression" ->
            "(" \o String(node.Left) \o "[" \o String(node.Index) \o "])"

(***************************************************************************)
(* Runtime objects (internal/object/object.go)                             *)
(***************************************************************************)
IntegerObj == "INTEGER"
BooleanObj == "BOOLEAN"
NullObj == "NULL"
ReturnValueObj == "RETURN_VALUE"
ErrorObj == "ERROR"
FunctionObj == "FUNCTION"
StringObj == "STRING"
BuiltinObj == "BUILTIN"
ArrayObj == "ARRAY"
HashObj == "HASH"

\* a nil object.Object
NilObj == [Type |-> "nil"]
IsNilObj(obj) == obj.Type = "nil"

\* a run-time panic on its way up the call stack
Panic(msg) == [Type |-> "PANIC", Message |-> msg]
IsPanic(obj) == obj.Type = "PANIC"
NilDereference == Panic("invalid memory address or nil pointer dereference")
DivideByZero == Panic("integer divide by zero")
IndexOutOfRange == Panic("index out of range")

\* the singletons of the evaluator
True == [Type |-> BooleanObj, BoolValue |-> TRUE]
False == [Type |-> BooleanObj, BoolValue |-> FALSE]
Null == [Type |-> NullObj]

\* &object.Integer{...} and the like.  Objects whose pointer identity the
\* evaluator can observe (through == and !=) carry the address Addr.
NewInteger(v) == [Type |-> IntegerObj, Value |-> v]
NewString(v) == [Type |-> StringObj, StrValue |-> v]
NewError(msg) == [Type |-> ErrorObj, Message |-> msg]
NewReturnValue(v, addr) == [Type |-> ReturnValueObj, Wrapped |-> v, Addr |-> addr]
\* mutant of NewFunction: the function does not capture the environment it
\* is defined in (it sees the outermost frame only)
NewFunctionUncaptured(params, body, env, addr) ==
    [Type |-> FunctionObj, Parameters |-> params, Body |-> body, Env |-> 1,
     Addr |-> addr]

NewFunction(params, body, env, addr) ==
    [Type |-> FunctionObj, Parameters |-> params, Body |-> body, Env |-> env,
     Addr |-> addr]
NewArray(elements, addr) == [Type |-> ArrayObj, Elements |-> elements, Addr |-> addr]
Builtin(name) == [Type |-> BuiltinObj, Name |-> name]
NewHash(pairs, addr) == [Type |-> HashObj, Pairs |-> pairs, Addr |-> addr]
\* object.HashPair
HashPair(key, value) == [Key |-> key, PairValue |-> value]

(***************************************************************************)
(* Hash keys.  A uint64 is four 16-bit limbs, lowest first, so that the    *)
(* 64-bit arithmetic of the digests is exact.                              *)
(***************************************************************************)
Limb == 65536

\* uint64(v) of an int64 v: v itself, or 2^64 + v when v is negative
Uint64(v) ==
    IF v >= 0 THEN <<v % Limb, (v \div Limb) % Limb, 0, 0>>
    ELSE LET m == -v - 1
         IN <<Limb - 1 - (m % Limb), Limb - 1 - ((m \div Limb) % Limb),
              Limb - 1, Limb - 1>>

RECURSIVE Xor(_, _)
\* a ^ b on naturals
Xor(a, b) ==
    IF a = 0 THEN b
    ELSE IF b = 0 THEN a
    ELSE ((a + b) % 2) + 2 * Xor(a \div 2, b \div 2)

\* fnv offset64 = 14695981039346656037 = 0xcbf29ce484222325
Offset64 == <<8997, 33826, 40164, 52210>>

\* h * prime64 modulo 2^64, prime64 = 1099511628211 = 2^40 + 435
MulPrime64(h) ==
    LET r1 == h[1] * 435
        r2 == h[2] * 435 + (r1 \div Limb)
        r3 == h[3] * 435 + h[1] * 256 + (r2 \div Limb)
        r4 == h[4] * 435 + h[2] * 256 + (r3 \div Limb)
    IN <<r1 % Limb, r2 % Limb, r3 % Limb, r4 % Limb>>

RECURSIVE Sum64a(_, _, _)
\* fnv.New64a, Write(bytes), Sum64: from byte i on, with h the hash so far
\* (a limb is always below Limb: the test makes each step compute its hash
\* before the next step starts)
Sum64a(bytes, i, h) ==
    IF i > Len(bytes) THEN h
    ELSE LET next == MulPrime64(<<Xor(h[1], bytes[i]), h[2], h[3], h[4]>>)
         IN IF next[1] < Limb THEN Sum64a(bytes, i + 1, next) ELSE next

\* []byte(s) for the strings the programs of this model use
Bytes(s) ==
    CASE s = "" -> <<>>
      [] s = "a" -> <<97>>
      [] s = "b" -> <<98>>
      [] s = "ab" -> <<97, 98>>
      [] s = "1" -> <<49>>
      [] s = "8yn0iYCKYHlIj4-BwPqk" ->
            <<56, 121, 110, 48, 105, 89, 67, 75, 89, 72, 108, 73, 106, 52, 45,
              66, 119, 80, 113, 107>>
      [] s = "GReLUrM4wMqfg9yzV3KQ" ->
            <<71, 82, 101, 76, 85, 114, 77, 52, 119, 77, 113, 102, 103, 57,
              121, 122, 86, 51, 75, 81>>

\* mutant of IsHashable: String does not implement Hashable
IsHashableNoString(obj) == obj.Type \in {IntegerObj, BooleanObj}

\* the types that implement object.Hashable
IsHashable(obj) == obj.Type \in {IntegerObj, BooleanObj, StringObj}

\* mutant of HashKey: the key is the digest alone, without the type
HashKeyUntyped(obj) ==
    CASE obj.Type = BooleanObj ->
            [KeyType |-> "",
             Digest |-> IF obj.BoolValue THEN Uint64(1) ELSE Uint64(0)]
      [] obj.Type = IntegerObj ->
            [KeyType |-> "", Digest |-> Uint64(obj.Value)]
      [] obj.Type = StringObj ->
            [KeyType |-> "",
             Digest |-> Sum64a(Bytes(obj.StrValue), 1, Offset64)]

\* Boolean.HashKey, Integer.HashKey and String.HashKey
HashKey(obj) ==
    CASE obj.Type = BooleanObj ->
            [KeyType |-> BooleanObj,
             Digest |-> IF obj.BoolValue THEN Uint64(1) ELSE Uint64(0)]
      [] obj.Type = IntegerObj ->
            [KeyType |-> IntegerObj, Digest |-> Uint64(obj.Value)]
      [] obj.Type = StringObj ->
            [KeyType |-> StringObj,
             Digest |-> Sum64a(Bytes(obj.StrValue), 1, Offset64)]

\* left == right on two object.Object interface values: same dynamic type and
\* same pointer.  Integer and String objects are allocated afresh by every
\* evaluation and are never compared by pointer with one of their own type
\* (evalInfixExpression compares those by value first).
SamePointer(a, b) ==
    IF a.Type # b.Type THEN FALSE
    ELSE CASE a.Type = "nil" -> TRUE
           [] a.Type = NullObj -> TRUE
           [] a.Type = BooleanObj -> a.BoolValue = b.BoolValue
           [] a.Type = BuiltinObj -> a.Name = b.Name
           [] a.Type \in {ReturnValueObj, FunctionObj, ArrayObj, HashObj} ->
                a.Addr = b.Addr
           [] OTHER -> FALSE

(***************************************************************************)
(* Environment: a chain of frames.  heap[e] is the frame with reference e; *)
(* outer = 0 is the nil outer pointer of the global frame.                 *)
(***************************************************************************)
NewFrame(outer) == [store |-> <<>>, outer |-> outer]

\* the reference of the frame the driver creates before it reads a line
GlobalEnv == 1

\* object.NewEnvironment on a heap: the heap with the new frame, and its reference
NewEnvironment(h) == [heap |-> Append(h, NewFrame(0)), env |-> Len(h) + 1]

NewEnclosedEnvironment(h, outer) ==
    [heap |-> Append(h, NewFrame(outer)), env |-> Len(h) + 1]

RECURSIVE EnvGet(_, _, _)
\* Environment.Get: the local frame, then the outer chain
EnvGet(h, env, name) ==
    IF name \in DOMAIN h[env].store
    THEN [obj |-> h[env].store[name], ok |-> TRUE]
    ELSE IF h[env].outer # 0
         THEN EnvGet(h, h[env].outer, name)
         ELSE [obj |-> NilObj, ok |-> FALSE]

\* Environment.Set: creates or overwrites in the frame it is called on
EnvSet(h, env, name, val) ==
    [h EXCEPT ![env].store =
        [n \in (DOMAIN @) \cup {name} |-> IF n = name THEN val ELSE @[n]]]

(***************************************************************************)
(* Evaluator (internal/evaluator/evaluator.go).                            *)
(* The evaluation state st threads what the Go code mutates or allocates:  *)
(* st.heap the Environment frames, st.next the next object address, and    *)
(* the ghosts st.log, the nodes handed to Eval so far, and st.calls, the   *)
(* objects applyFunction has returned so far.  Functions that evaluate     *)
(* nodes return [obj, st]; the others return the object.  st.orders are    *)
(* the orders in which the range statements over maps visit their pairs,   *)
(* st.ranged the number of such statements run so far; the ghost           *)
(* st.effects records, for each call of a Function, the frames when        *)
(* applyFunction was entered and when it returned.                         *)
(***************************************************************************)
\* mutant of isError: no object is taken for an Error
isErrorNever(obj) == FALSE

isError(obj) == IF ~IsNilObj(obj) THEN obj.Type = ErrorObj ELSE FALSE

nativeBoolToBooleanObject(b) == IF b THEN True ELSE False

evalBangOperatorExpression(right) ==
    CASE SamePointer(right, True) -> False
      [] SamePointer(right, False) -> True
      [] SamePointer(right, Null) -> True
      [] OTHER -> False

evalMinusPrefixOperatorExpression(right) ==
    IF IsNilObj(right) THEN NilDereference
    ELSE IF right.Type # IntegerObj
    THEN NewError("unknown operator: -" \o right.Type)
    ELSE NewInteger(-right.Value)

evalPrefixExpression(operator, right) ==
    CASE operator = "!" -> evalBangOperatorExpression(right)
      [] operator = "-" -> evalMinusPrefixOperatorExpression(right)
      [] OTHER ->
            IF IsNilObj(right) THEN NilDereference
            ELSE NewError("unknown operator: " \o operator \o right.Type)

\* mutant of Quo: the quotient rounded down
QuoFloor(a, b) == a \div b

\* Go's integer division: the quotient truncated toward zero
Quo(a, b) ==
    LET q == (IF a < 0 THEN -a ELSE a) \div (IF b < 0 THEN -b ELSE b)
    IN IF (a < 0) = (b < 0) THEN q ELSE -q

evalIntegerInfixExpression(operator, left, right) ==
    LET leftValue == left.Value
        rightValue == right.Value
    IN CASE operator = "+" -> NewInteger(leftValue + rightValue)
         [] operator = "-" -> NewInteger(leftValue - rightValue)
         [] operator = "*" -> NewInteger(leftValue * rightValue)
         [] operator = "/" ->
               IF rightValue = 0 THEN DivideByZero
               ELSE NewInteger(Quo(leftValue, rightValue))
         [] operator = "<" -> nativeBoolToBooleanObject(leftValue < rightValue)
         [] operator = ">" -> nativeBoolToBooleanObject(leftValue > rightValue)
         [] operator = "==" -> nativeBoolToBooleanObject(leftValue = rightValue)
         [] operator = "!=" -> nativeBoolToBooleanObject(leftValue # rightValue)
         [] OTHER ->
               NewError("unknown operator: " \o left.Type \o " " \o operator
                        \o " " \o right.Type)

evalStringInfixExpression(operator, left, right) ==
    IF operator # "+"
    THEN NewError("unknown operator: " \o left.Type \o " " \o operator
                  \o " " \o right.Type)
    ELSE NewString(left.StrValue \o right.StrValue)

\* mutant of evalInfixExpression: the type mismatch case comes before the
\* == and != cases
evalInfixExpressionMismatchFirst(operator, left, right) ==
    IF IsNilObj(left) THEN NilDereference
    ELSE IF left.Type = IntegerObj /\ IsNilObj(right) THEN NilDereference
    ELSE IF left.Type = IntegerObj /\ right.Type = IntegerObj
    THEN evalIntegerInfixExpression(operator, left, right)
    ELSE IF left.Type = StringObj /\ IsNilObj(right) THEN NilDereference
    ELSE IF left.Type = StringObj /\ right.Type = StringObj
    THEN evalStringInfixExpression(operator, left, right)
    ELSE IF IsNilObj(right) THEN NilDereference
    ELSE IF left.Type # right.Type
    THEN NewError("type mismatch: " \o left.Type \o " " \o operator
                  \o " " \o right.Type)
    ELSE IF operator = "=="
    THEN nativeBoolToBooleanObject(SamePointer(left, right))
    ELSE IF operator = "!="
    THEN nativeBoolToBooleanObject(~SamePointer(left, right))
    ELSE NewError("unknown operator: " \o left.Type \o " " \o operator
                  \o " " \o right.Type)

\* mutant of evalInfixExpression: the type mismatch case is missing
evalInfixExpressionNoMismatch(operator, left, right) ==
    IF IsNilObj(left) THEN NilDereference
    ELSE IF left.Type = IntegerObj /\ IsNilObj(right) THEN NilDereference
    ELSE IF left.Type = IntegerObj /\ right.Type = IntegerObj
    THEN evalIntegerInfixExpression(operator, left, right)
    ELSE IF left.Type = StringObj /\ IsNilObj(right) THEN NilDereference
    ELSE IF left.Type = StringObj /\ right.Type = StringObj
    THEN evalStringInfixExpression(operator, left, right)
    ELSE IF operator = "=="
    THEN nativeBoolToBooleanObject(SamePointer(left, right))
    ELSE IF operator = "!="
    THEN nativeBoolToBooleanObject(~SamePointer(left, right))
    ELSE IF IsNilObj(right) THEN NilDereference
    ELSE NewError("unknown operator: " \o left.Type \o " " \o operator
                  \o " " \o right.Type)

\* The switch of evalInfixExpression, case by case in source order.  A case
\* condition calls Type() on an operand, which panics on a nil operand; &&
\* does not evaluate its right side when the left side is false.
evalInfixExpression(operator, left, right) ==
    IF IsNilObj(left) THEN NilDereference
    ELSE IF left.Type = IntegerObj /\ IsNilObj(right) THEN NilDereference
    ELSE IF left.Type = IntegerObj /\ right.Type = IntegerObj
    THEN evalIntegerInfixExpression(operator, left, right)
    ELSE IF left.Type = StringObj /\ IsNilObj(right) THEN NilDereference
    ELSE IF left.Type = StringObj /\ right.Type = StringObj
    THEN evalStringInfixExpression(operator, left, right)
    ELSE IF operator = "=="
    THEN nativeBoolToBooleanObject(SamePointer(left, right))
    ELSE IF operator = "!="
    THEN nativeBoolToBooleanObject(~SamePointer(left, right))
    ELSE IF IsNilObj(right) THEN NilDereference
    ELSE IF left.Type # right.Type
    THEN NewError("type mismatch: " \o left.Type \o " " \o operator
                  \o " " \o right.Type)
    ELSE NewError("unknown operator: " \o left.Type \o " " \o operator
                  \o " " \o right.Type)

\* mutant of isTruthy: the Integer 0 is falsy as well
isTruthyNonZero(obj) ==
    CASE SamePointer(obj, Null) -> FALSE
      [] SamePointer(obj, True) -> TRUE
      [] SamePointer(obj, False) -> FALSE
      [] obj = NewInteger(0) -> FALSE
      [] OTHER -> TRUE

isTruthy(obj) ==
    CASE SamePointer(obj, Null) -> FALSE
      [] SamePointer(obj, True) -> TRUE
      [] SamePointer(obj, False) -> FALSE
      [] OTHER -> TRUE

\* builtins["len"].Fn (the back quotes around len in its last message are
\* written as single quotes: a TLA+ string cannot hold a back quote)
builtinLen(args) ==
    IF Len(args) # 1
    THEN NewError("wrong number of arguments. got=" \o ToString(Len(args))
                  \o ", want=1")
    ELSE IF IsNilObj(args[1]) THEN NilDereference
    ELSE IF args[1].Type = StringObj THEN NewInteger(Len(args[1].StrValue))
    ELSE NewError("argument to 'len' not supported, got " \o args[1].Type)

\* the keys of the builtins map
builtins == {"len"}

\* mutant of evalIdentifier: the built-in registry is consulted first
evalIdentifierBuiltinFirst(node, env, st) ==
    LET got == EnvGet(st.heap, env, node.Value)
    IN IF node.Value \in builtins THEN Builtin(node.Value)
       ELSE IF got.ok THEN got.obj
       ELSE NewError("identifier not found: " \o node.Value)

\* mutant of evalIdentifier: a name the chain does not bind is looked for in
\* the frames of the callers (the newest frame that binds it)
evalIdentifierDynamic(node, env, st) ==
    LET got == EnvGet(st.heap, env, node.Value)
        binding == {e \in 1..Len(st.heap) : node.Value \in DOMAIN st.heap[e].store}
    IN IF got.ok THEN got.obj
       ELSE IF binding # {}
       THEN st.heap[CHOOSE e \in binding : \A o \in binding : o <= e].store[node.Value]
       ELSE IF node.Value \in builtins THEN Builtin(node.Value)
       ELSE NewError("identifier not found: " \o node.Value)

evalIdentifier(node, env, st) ==
    LET got == EnvGet(st.heap, env, node.Value)
    IN IF got.ok THEN got.obj
       ELSE IF node.Value \in builtins THEN Builtin(node.Value)
       ELSE NewError("identifier not found: " \o node.Value)

unwrapReturnValue(obj) ==
    IF obj.Type = ReturnValueObj THEN obj.Wrapped ELSE obj

evalArrayIndexExpression(array, index) ==
    LET idx == index.Value
        max == Len(array.Elements) - 1
    IN IF idx < 0 \/ idx > max THEN Null ELSE array.Elements[idx + 1]

RECURSIVE extendFunctionEnvLoop(_, _, _, _, _)
\* the for loop of extendFunctionEnv: args[i] past the end of args panics
extendFunctionEnvLoop(h, env, params, args, i) ==
    IF i > Len(params) THEN [heap |-> h, env |-> env, panic |-> FALSE]
    ELSE IF i > Len(args) THEN [heap |-> h, env |-> env, panic |-> TRUE]
    ELSE extendFunctionEnvLoop(EnvSet(h, env, params[i].Value, args[i]),
                               env, params, args, i + 1)

\* mutant of extendFunctionEnv: the parameters are bound in the captured
\* frame itself, no frame is made for the invocation
extendFunctionEnvShared(h, fn, args) ==
    extendFunctionEnvLoop(h, fn.Env, fn.Parameters, args, 1)

\* mutant of extendFunctionEnv: the frame of the invocation has no outer frame
extendFunctionEnvDetached(h, fn, args) ==
    LET e == NewEnvironment(h)
    IN extendFunctionEnvLoop(e.heap, e.env, fn.Parameters, args, 1)

extendFunctionEnv(h, fn, args) ==
    LET e == NewEnclosedEnvironment(h, fn.Env)
    IN extendFunctionEnvLoop(e.heap, e.env, fn.Parameters, args, 1)

RECURSIVE Eval(_, _, _), evalStatements(_, _, _, _, _, _), evalExpressions(_, _, _, _)
RECURSIVE evalHashLiteralLoop(_, _, _, _, _, _)

RECURSIVE evalStatementsPastErrors(_, _, _, _, _, _)
\* mutant of evalStatements: an Error does not stop the loop
evalStatementsPastErrors(top, stmts, i, env, st, last) ==
    IF i > Len(stmts) THEN [obj |-> last, st |-> st]
    ELSE
      LET r == Eval(stmts[i], env, st)
      IN IF IsPanic(r.obj) THEN r
         ELSE IF top
         THEN CASE r.obj.Type = ReturnValueObj -> [obj |-> r.obj.Wrapped, st |-> r.st]
                [] OTHER -> evalStatementsPastErrors(top, stmts, i + 1, env, r.st, r.obj)
         ELSE IF ~IsNilObj(r.obj) /\ r.obj.Type = ReturnValueObj
              THEN r
              ELSE evalStatementsPastErrors(top, stmts, i + 1, env, r.st, r.obj)

\* The loops of evalProgram (top = TRUE) and evalBlockStatement (top = FALSE)
\* from statement i on; last is the value of the statement before it.
evalStatements(top, stmts, i, env, st, last) ==
    IF i > Len(stmts) THEN [obj |-> last, st |-> st]
    ELSE
      LET r == Eval(stmts[i], env, st)
      IN IF IsPanic(r.obj) THEN r
         ELSE IF top
         THEN CASE r.obj.Type = ReturnValueObj -> [obj |-> r.obj.Wrapped, st |-> r.st]
                [] r.obj.Type = ErrorObj -> r
                [] OTHER -> evalStatements(top, stmts, i + 1, env, r.st, r.obj)
         ELSE IF ~IsNilObj(r.obj) /\ r.obj.Type \in {ReturnValueObj, ErrorObj}
              THEN r
              ELSE evalStatements(top, stmts, i + 1, env, r.st, r.obj)

evalProgram(program_, env, st) ==
    evalStatements(TRUE, program_.Statements, 1, env, st, NilObj)

evalBlockStatement(block, env, st) ==
    evalStatements(FALSE, block.Statements, 1, env, st, NilObj)

\* The loop of evalExpressions from expression i on.  A panic leaves through
\* the same one-element list as an Error does.
evalExpressions(exprs, i, env, acc) ==
    IF i > Len(exprs) THEN acc
    ELSE
      LET r == Eval(exprs[i], env, acc.st)
      IN IF IsPanic(r.obj) \/ isError(r.obj)
         THEN [list |-> <<r.obj>>, st |-> r.st]
         ELSE evalExpressions(exprs, i + 1, env,
                              [list |-> Append(acc.list, r.obj), st |-> r.st])

evalIfExpression(expr, env, st) ==
    LET condition == Eval(expr.Condition, env, st)
    IN IF IsPanic(condition.obj) \/ isError(condition.obj) THEN condition
       ELSE IF isTruthy(condition.obj)
       THEN Eval(expr.Consequence, env, condition.st)
       ELSE IF ~IsNil(expr.Alternative)
       THEN Eval(expr.Alternative, env, condition.st)
       ELSE [obj |-> Null, st |-> condition.st]

\* the object applyFunction returns, recorded in the ghost st.calls
Returned(obj, st) == [obj |-> obj, st |-> [st EXCEPT !.calls = Append(@, obj)]]

applyFunction(fn, args, st) ==
    IF IsNilObj(fn) THEN [obj |-> NilDereference, st |-> st]
    ELSE IF fn.Type = FunctionObj
    THEN
      LET e == extendFunctionEnv(st.heap, fn, args)
          st1 == [st EXCEPT !.heap = e.heap]
      IN IF e.panic THEN [obj |-> IndexOutOfRange, st |-> st1]
         ELSE LET evaluated == Eval(fn.Body, e.env, st1)
              IN IF IsPanic(evaluated.obj) THEN evaluated
                 ELSE Returned(unwrapReturnValue(evaluated.obj),
                               [evaluated.st EXCEPT !.effects =
                                  Append(@, [fn |-> fn, env |-> e.env,
                                             before |-> st.heap,
                                             after |-> evaluated.st.heap])])
    ELSE IF fn.Type = BuiltinObj
    THEN Returned(builtinLen(args), st)
    ELSE Returned(NewError("not a function: " \o fn.Type), st)

\* The loop of evalHashLiteral over node.Pairs: order lists the pairs not
\* yet visited, pairs is the map built so far.
evalHashLiteralLoop(node, order, i, env, st, pairs) ==
    IF i > Len(order)
    THEN [obj |-> NewHash(pairs, st.next), st |-> [st EXCEPT !.next = @ + 1]]
    ELSE
      LET key == Eval(node.Pairs[order[i]][1], env, st)
      IN IF IsPanic(key.obj) \/ isError(key.obj) THEN key
         ELSE IF IsNilObj(key.obj) THEN [obj |-> NilDereference, st |-> key.st]
         ELSE IF ~IsHashable(key.obj)
         THEN [obj |-> NewError("unusable as hash key: " \o key.obj.Type),
               st |-> key.st]
         ELSE
           LET value == Eval(node.Pairs[order[i]][2], env, key.st)
           IN IF IsPanic(value.obj) \/ isError(value.obj) THEN value
              ELSE
                LET hashed == HashKey(key.obj)
                IN evalHashLiteralLoop(
                     node, order, i + 1, env, value.st,
                     [k \in (DOMAIN pairs) \cup {hashed} |->
                        IF k = hashed THEN HashPair(key.obj, value.obj)
                        ELSE pairs[k]])

\* The range statement visits the pairs of the map node.Pairs in an order
\* the language leaves open: the order of this visit is the next one of
\* st.orders, cut down to the pairs the literal has.
evalHashLiteral(node, env, st) ==
    LET n == Len(node.Pairs)
        all == IF Len(st.orders) = 0 THEN [i \in 1..n |-> i]
               ELSE st.orders[(st.ranged % Len(st.orders)) + 1]
        order == SelectSeq([i \in 1..Len(all) |-> all[i]], LAMBDA j : j <= n)
    IN evalHashLiteralLoop(node, order, 1, env,
                           [st EXCEPT !.ranged = @ + 1], <<>>)

evalHashIndexExpression(left, index) ==
    IF IsNilObj(index) THEN NilDereference
    ELSE IF ~IsHashable(index)
    THEN NewError("unusable as hash key: " \o index.Type)
    ELSE IF HashKey(index) \notin DOMAIN left.Pairs THEN Null
    ELSE left.Pairs[HashKey(index)].PairValue

evalIndexExpression(left, index) ==
    IF IsNilObj(left) THEN NilDereference
    ELSE IF left.Type = ArrayObj /\ IsNilObj(index) THEN NilDereference
    ELSE IF left.Type = ArrayObj /\ index.Type = IntegerObj
    THEN evalArrayIndexExpression(left, index)
    ELSE IF left.Type = HashObj
    THEN evalHashIndexExpression(left, index)
    ELSE NewError("index operator not supported: " \o left.Type)

Eval(node, env, st0) ==
    LET st == [st0 EXCEPT !.log = Append(@, node)]
    IN
    CASE node.Kind = "Program" -> evalProgram(node, env, st)
      [] node.Kind = "ExpressionStatement" -> Eval(node.Expression, env, st)
      [] node.Kind = "IntegerLiteral" -> [obj |-> NewInteger(node.IntValue), st |-> st]
      [] node.Kind = "Boolean" ->
            [obj |-> nativeBoolToBooleanObject(node.BoolValue), st |-> st]
      [] node.Kind = "PrefixExpression" ->
            LET right == Eval(node.Right, env, st)
            IN IF IsPanic(right.obj) \/ isError(right.obj) THEN right
               ELSE [obj |-> evalPrefixExpression(node.Operator, right.obj),
                     st |-> right.st]
      [] node.Kind = "InfixExpression" ->
            LET left == Eval(node.Left, env, st)
            IN IF IsPanic(left.obj) \/ isError(left.obj) THEN left
               ELSE LET right == Eval(node.Right, env, left.st)
                    IN IF IsPanic(right.obj) \/ isError(right.obj) THEN right
                       ELSE [obj |-> evalInfixExpression(node.Operator,
                                                         left.obj, right.obj),
                             st |-> right.st]
      [] node.Kind = "BlockStatement" -> evalBlockStatement(node, env, st)
      [] node.Kind = "IfExpression" -> evalIfExpression(node, env, st)
      [] node.Kind = "ReturnStatement" ->
            LET value == Eval(node.ReturnValue, env, st)
            IN IF IsPanic(value.obj) \/ isError(value.obj) THEN value
               ELSE [obj |-> NewReturnValue(value.obj, value.st.next),
                     st |-> [value.st EXCEPT !.next = @ + 1]]
      [] node.Kind = "LetStatement" ->
            LET val == Eval(node.LetValue, env, st)
            IN IF IsPanic(val.obj) \/ isError(val.obj) THEN val
               ELSE [obj |-> NilObj,
                     st |-> [val.st EXCEPT
                               !.heap = EnvSet(@, env, node.Name.Value, val.obj)]]
      [] node.Kind = "Identifier" -> [obj |-> evalIdentifier(node, env, st), st |-> st]
      [] node.Kind = "FunctionLiteral" ->
            [obj |-> NewFunction(node.Parameters, node.Body, env, st.next),
             st |-> [st EXCEPT !.next = @ + 1]]
      [] node.Kind = "CallExpression" ->
            LET function == Eval(node.Function, env, st)
            IN IF IsPanic(function.obj) \/ isError(function.obj) THEN function
               ELSE
                 LET args == evalExpressions(node.Arguments, 1, env,
                                             [list |-> <<>>, st |-> function.st])
                 IN IF Len(args.list) = 1
                       /\ (IsPanic(args.list[1]) \/ isError(args.list[1]))
                    THEN [obj |-> args.list[1], st |-> args.st]
                    ELSE applyFunction(function.obj, args.list, args.st)
      [] node.Kind = "StringLiteral" -> [obj |-> NewString(node.Value), st |-> st]
      [] node.Kind = "ArrayLiteral" ->
            LET elements == evalExpressions(node.Elements, 1, env,
                                            [list |-> <<>>, st |-> st])
            IN IF Len(elements.list) = 1
                  /\ (IsPanic(elements.list[1]) \/ isError(elements.list[1]))
               THEN [obj |-> elements.list[1], st |-> elements.st]
               ELSE [obj |-> NewArray(elements.list, elements.st.next),
                     st |-> [elements.st EXCEPT !.next = @ + 1]]
      [] node.Kind = "IndexExpression" ->
            LET left == Eval(node.Left, env, st)
            IN IF IsPanic(left.obj) \/ isError(left.obj) THEN left
               ELSE LET index == Eval(node.Index, env, left.st)
                    IN IF IsPanic(index.obj) \/ isError(index.obj) THEN index
                       ELSE [obj |-> evalIndexExpression(left.obj, index.obj),
                             st |-> index.st]
      [] node.Kind = "HashLiteral" -> evalHashLiteral(node, env, st)
      [] OTHER -> [obj |-> NilObj, st |-> st]

(***************************************************************************)
(* The driver: one pass of the loop of repl.Start on one line of input.    *)
(* The environment is created once, before the line is read; a line with   *)
(* diagnostics is reported and not evaluated.                              *)
(***************************************************************************)
InitOn(src, toks) ==
    /\ pc = "read"
    /\ source = src
    /\ input = toks
    /\ program = Nil
    /\ errors = <<>>
    /\ parsed = NotParsed
    /\ result = NilObj
    /\ heap = NewEnvironment(<<>>).heap
    /\ log = <<>>
    /\ calls = <<>>
    /\ effects = <<>>

\* l := lexer.New(line); p := parser.New(l); program := p.ParseProgram()
ParseLine ==
    /\ pc = "read"
    /\ parsed' = Parse(input)
    /\ program' = parsed'.node
    /\ errors' = parsed'.p.errors
    /\ pc' = IF Len(parsed'.p.errors) # 0 THEN "rejected" ELSE "parsed"
    /\ UNCHANGED <<input, result, heap, log, calls, effects, source>>

RECURSIVE RangeWidths(_), RangeWidthsAll(_)
\* the numbers of pairs of the hash literals in a node, in source order
RangeWidths(node) ==
    CASE node.Kind \in {"Program", "BlockStatement"} -> RangeWidthsAll(node.Statements)
      [] node.Kind = "ExpressionStatement" -> RangeWidths(node.Expression)
      [] node.Kind = "LetStatement" -> RangeWidths(node.LetValue)
      [] node.Kind = "ReturnStatement" -> RangeWidths(node.ReturnValue)
      [] node.Kind = "PrefixExpression" -> RangeWidths(node.Right)
      [] node.Kind = "InfixExpression" ->
            RangeWidths(node.Left) \o RangeWidths(node.Right)
      [] node.Kind = "IfExpression" ->
            RangeWidths(node.Condition) \o RangeWidths(node.Consequence)
            \o RangeWidths(node.Alternative)
      [] node.Kind = "FunctionLiteral" -> RangeWidths(node.Body)
      [] node.Kind = "CallExpression" ->
            RangeWidths(node.Function) \o RangeWidthsAll(node.Arguments)
      [] node.Kind = "ArrayLiteral" -> RangeWidthsAll(node.Elements)
      [] node.Kind = "IndexExpression" ->
            RangeWidths(node.Left) \o RangeWidths(node.Index)
      [] node.Kind = "HashLiteral" ->
            <<Len(node.Pairs)>>
            \o RangeWidthsAll([i \in 1..Len(node.Pairs) |-> node.Pairs[i][1]])
            \o RangeWidthsAll([i \in 1..Len(node.Pairs) |-> node.Pairs[i][2]])
      [] OTHER -> <<>>

RangeWidthsAll(nodes) ==
    IF Len(nodes) = 0 THEN <<>>
    ELSE RangeWidths(nodes[1]) \o RangeWidthsAll(Tail(nodes))

\* the orders the range statements of an evaluation of node can take: one
\* permutation for each hash literal
RangeOrders(node) ==
    LET widths == RangeWidths(node)
        widest == IF Len(widths) = 0 THEN 0
                  ELSE CHOOSE w \in 0..64 :
                         /\ \E i \in 1..Len(widths) : widths[i] = w
                         /\ \A i \in 1..Len(widths) : widths[i] <= w
    IN [1..Len(widths) -> Permutations(1..widest)]

\* value := evaluator.Eval(program, env)
EvalLine ==
    /\ pc = "parsed"
    /\ \E orders \in RangeOrders(program) :
         LET r == Eval(program, GlobalEnv,
                       [heap |-> heap, next |-> 1, log |-> <<>>, calls |-> <<>>,
                        effects |-> <<>>, orders |-> orders, ranged |-> 0])
         IN /\ result' = r.obj
            /\ heap' = r.st.heap
            /\ log' = r.st.log
            /\ calls' = r.st.calls
            /\ effects' = r.st.effects
    /\ pc' = "done"
    /\ UNCHANGED <<input, program, errors, parsed, source>>

Next == ParseLine \/ EvalLine

(***************************************************************************)
(* Programs as the grammar of the language describes them, and their text. *)
(* These are the reference the parser's output is compared with: a tree is *)
(* written out with parentheses only where the precedence table requires   *)
(* them (or around every operand), and the parser must give the tree back. *)
(***************************************************************************)
TLeaf(tok) == [k |-> "leaf", tok |-> tok]
TPre(op, r) == [k |-> "pre", op |-> op, r |-> r]
TBin(op, l, r) == [k |-> "bin", op |-> op, l |-> l, r |-> r]
TCall(f, args) == [k |-> "call", f |-> f, args |-> args]
TIf(c, cons) == [k |-> "if", c |-> c, cons |-> cons, hasAlt |-> FALSE, alt |-> <<>>]
TIfElse(c, cons, alt) ==
    [k |-> "if", c |-> c, cons |-> cons, hasAlt |-> TRUE, alt |-> alt]
TFn(params, body) == [k |-> "fn", params |-> params, body |-> body]
TIndex(l, i) == [k |-> "index", l |-> l, i |-> i]
TArray(elems) == [k |-> "array", elems |-> elems]
\* pairs is a sequence of <<key, value>>
THash(pairs) == [k |-> "hash", pairs |-> pairs]
TLet(name, e) == [k |-> "let", name |-> name, e |-> e]
TRet(e) == [k |-> "ret", e |-> e]
TExp(e) == [k |-> "exp", e |-> e]

Id(name) == TLeaf(Word(name))
Lit(n) == TLeaf(Num(n))

\* binding strength of an operator of the grammar: equality < relational <
\* additive < multiplicative < prefix < call < operand
Strength(t) ==
    CASE t.k = "bin" /\ t.op \in {"==", "!="} -> 1
      [] t.k = "bin" /\ t.op \in {"<", ">"} -> 2
      [] t.k = "bin" /\ t.op \in {"+", "-"} -> 3
      [] t.k = "bin" /\ t.op \in {"*", "/"} -> 4
      [] t.k = "pre" -> 5
      [] t.k \in {"call", "index"} -> 6
      [] t.k \in {"leaf", "if", "fn", "array", "hash"} -> 7

RECURSIVE Unparse(_, _, _), UnparseArgs(_, _), UnparseStmts(_, _)
\* the tokens of tree t as an operand that must bind at least as tightly as
\* least; with full set, every operand that is not a leaf is parenthesised
Unparse(t, least, full) ==
    LET body ==
          CASE t.k = "leaf" -> <<t.tok>>
            [] t.k = "pre" -> <<Sym(t.op)>> \o Unparse(t.r, 5, full)
            [] t.k = "bin" ->
                  Unparse(t.l, Strength(t), full) \o <<Sym(t.op)>>
                  \o Unparse(t.r, Strength(t) + 1, full)
            [] t.k = "call" ->
                  Unparse(t.f, 6, full) \o <<Sym("(")>> \o UnparseArgs(t.args, full)
                  \o <<Sym(")")>>
            [] t.k = "if" ->
                  <<Word("if"), Sym("(")>> \o Unparse(t.c, 0, full)
                  \o <<Sym(")"), Sym("{")>> \o UnparseStmts(t.cons, full)
                  \o <<Sym("}")>>
                  \o (IF t.hasAlt
                      THEN <<Word("else"), Sym("{")>> \o UnparseStmts(t.alt, full)
                           \o <<Sym("}")>>
                      ELSE <<>>)
            [] t.k = "fn" ->
                  <<Word("fn"), Sym("(")>>
                  \o UnparseArgs([i \in 1..Len(t.params) |-> Id(t.params[i])], full)
                  \o <<Sym(")"), Sym("{")>> \o UnparseStmts(t.body, full)
                  \o <<Sym("}")>>
    IN IF Strength(t) < least \/ (full /\ t.k # "leaf" /\ least > 0)
       THEN <<Sym("(")>> \o body \o <<Sym(")")>>
       ELSE body

UnparseArgs(args, full) ==
    IF Len(args) = 0 THEN <<>>
    ELSE IF Len(args) = 1 THEN Unparse(args[1], 0, full)
    ELSE Unparse(args[1], 0, full) \o <<Sym(",")>> \o UnparseArgs(Tail(args), full)

\* the tokens of a statement sequence
UnparseStmts(stmts, full) ==
    IF Len(stmts) = 0 THEN <<>>
    ELSE
      LET s == stmts[1]
          text ==
            CASE s.k = "let" ->
                   <<Word("let"), Word(s.name), Sym("=")>> \o Unparse(s.e, 0, full)
              [] s.k = "ret" -> <<Word("return")>> \o Unparse(s.e, 0, full)
              [] s.k = "exp" -> Unparse(s.e, 0, full)
          \* the tests write no semicolon after an if-expression statement
          end == IF s.k = "exp" /\ s.e.k = "if" THEN <<>> ELSE <<Sym(";")>>
      IN text \o end \o UnparseStmts(Tail(stmts), full)

RECURSIVE HasIndex(_)
\* an index expression, an array literal and a hash literal have no text
\* the parser of this revision accepts (it registers no parse function for
\* the left bracket and none for the left brace): a tree that holds one
\* reaches the evaluator as a tree
HasIndex(t) ==
    CASE t.k = "leaf" -> FALSE
      [] t.k \in {"index", "array", "hash"} -> TRUE
      [] t.k = "pre" -> HasIndex(t.r)
      [] t.k = "bin" -> HasIndex(t.l) \/ HasIndex(t.r)
      [] t.k = "call" ->
            HasIndex(t.f) \/ \E i \in 1..Len(t.args) : HasIndex(t.args[i])
      [] t.k = "if" ->
            \/ HasIndex(t.c)
            \/ \E i \in 1..Len(t.cons) : HasIndex(t.cons[i])
            \/ \E i \in 1..Len(t.alt) : HasIndex(t.alt[i])
      [] t.k = "fn" -> \E i \in 1..Len(t.body) : HasIndex(t.body[i])
      [] t.k \in {"let", "ret", "exp"} -> HasIndex(t.e)

\* the value of an integer literal token
LeafValue(tok) == CHOOSE n \in 0..MaxLiteral : Num(n) = tok

RECURSIVE TreeAst(_, _)
\* the AST the grammar dictates for tree t (the tokens as the parser records
\* them when the text is Unparse(t, _, full))
TreeAst(t, full) ==
    LET Block(stmts) ==
          BlockStatement(Sym("{"), [i \in 1..Len(stmts) |-> TreeAst(stmts[i], full)])
    IN
    CASE t.k = "leaf" ->
            CASE t.tok.Type = "INTEGER" -> IntegerLiteral(t.tok, LeafValue(t.tok))
              [] t.tok.Type \in {"TRUE", "FALSE"} ->
                    BooleanNode(t.tok, t.tok.Type = "TRUE")
              [] t.tok.Type = "STRING" -> StringLiteral(t.tok, t.tok.Literal)
              [] OTHER -> Identifier(t.tok, t.tok.Literal)
      [] t.k = "pre" -> PrefixExpression(Sym(t.op), t.op, TreeAst(t.r, full))
      [] t.k = "bin" ->
            InfixExpression(Sym(t.op), TreeAst(t.l, full), t.op, TreeAst(t.r, full))
      [] t.k = "call" ->
            CallExpression(Sym("("), TreeAst(t.f, full),
                           [i \in 1..Len(t.args) |-> TreeAst(t.args[i], full)])
      [] t.k = "if" ->
            IfExpression(Word("if"), TreeAst(t.c, full), Block(t.cons),
                         IF t.hasAlt THEN Block(t.alt) ELSE Nil)
      [] t.k = "fn" ->
            FunctionLiteral(Word("fn"),
                            [i \in 1..Len(t.params) |->
                                Identifier(Word(t.params[i]), t.params[i])],
                            Block(t.body))
      [] t.k = "index" ->
            IndexExpression(Sym("["), TreeAst(t.l, full), TreeAst(t.i, full))
      [] t.k = "array" ->
            ArrayLiteral(Sym("["), [i \in 1..Len(t.elems) |-> TreeAst(t.elems[i], full)])
      [] t.k = "hash" ->
            HashLiteral(Sym("{"),
                        [i \in 1..Len(t.pairs) |->
                            <<TreeAst(t.pairs[i][1], full),
                              TreeAst(t.pairs[i][2], full)>>])
      [] t.k = "let" ->
            LetStatement(Word("let"), Identifier(Word(t.name), t.name),
                         TreeAst(t.e, full))
      [] t.k = "ret" -> ReturnStatement(Word("return"), TreeAst(t.e, full))
      [] t.k = "exp" ->
            ExpressionStatement(IF HasIndex(t.e) THEN ZeroToken
                                ELSE Unparse(t.e, 0, full)[1],
                                TreeAst(t.e, full))

\* the *ast.Program the grammar dictates for a statement sequence
ProgramAst(stmts, full) ==
    Program([i \in 1..Len(stmts) |-> TreeAst(stmts[i], full)])

\* the most operators a generated expression has
MaxOps == 2

PrefixOps == {"!", "-"}
BinaryOps == {"==", "!=", "<", ">", "+", "-", "*", "/"}

RECURSIVE TreesOfSize(_, _, _, _, _)
\* the trees with exactly n operators over the given leaves and operators;
\* calls (when withCalls) take zero, one or two arguments
TreesOfSize(n, leaves, preOps, binOps, withCalls) ==
    IF n = 0 THEN leaves
    ELSE
      LET T(i) == TreesOfSize(i, leaves, preOps, binOps, withCalls)
      IN {TPre(op, r) : op \in preOps, r \in T(n - 1)}
         \cup UNION {{TBin(op, l, r) : op \in binOps, l \in T(i), r \in T(n - 1 - i)} :
                     i \in 0..(n - 1)}
         \cup (IF withCalls
               THEN {TCall(f, <<>>) : f \in T(n - 1)}
                    \cup UNION {{TCall(f, <<x>>) : f \in T(i), x \in T(n - 1 - i)} :
                                i \in 0..(n - 1)}
                    \cup UNION {UNION {{TCall(f, <<x, y>>) :
                                          f \in T(i), x \in T(j), y \in T(n - 1 - i - j)} :
                                       j \in 0..(n - 1 - i)} : i \in 0..(n - 1)}
               ELSE {})

TreesUpTo(n, leaves, preOps, binOps, withCalls) ==
    UNION {TreesOfSize(i, leaves, preOps, binOps, withCalls) : i \in 0..n}

\* The line written from a statement sequence.  A sequence that holds an
\* index expression is handed to the evaluator as the tree it denotes.
InitProgram(src, stmts) ==
    IF \E i \in 1..Len(stmts) : HasIndex(stmts[i])
    THEN /\ pc = "parsed"
         /\ source = src
         /\ input = <<>>
         /\ program = ProgramAst(stmts, FALSE)
         /\ errors = <<>>
         /\ parsed = NotParsed
         /\ result = NilObj
         /\ heap = NewEnvironment(<<>>).heap
         /\ log = <<>>
         /\ calls = <<>>
         /\ effects = <<>>
    ELSE InitOn(src, UnparseStmts(stmts, FALSE))

\* some node handed to Eval is the integer literal n
Evaluated(n) ==
    \E i \in 1..Len(log) : log[i].Kind = "IntegerLiteral" /\ log[i].IntValue = n

\* name is bound in some frame of the heap
Bound(name) == \E e \in 1..Len(heap) : name \in DOMAIN heap[e].store

(***************************************************************************)
(* Specification SpecPrec: the lines are expressions over one identifier,  *)
(* written with the fewest parentheses or with all of them, together with  *)
(* the expressions of TestOperatorPrecedenceParsing the claims quote.      *)
(***************************************************************************)
\* a + b * c + d / e - f
PrecExample1 ==
    TBin("-", TBin("+", TBin("+", Id("a"), TBin("*", Id("b"), Id("c"))),
                   TBin("/", Id("d"), Id("e"))), Id("f"))
\* -a * b
PrecExample2 == TBin("*", TPre("-", Id("a")), Id("b"))
\* a + add(b * c) + d
PrecExample3 ==
    TBin("+", TBin("+", Id("a"), TCall(Id("add"), <<TBin("*", Id("b"), Id("c"))>>)),
         Id("d"))
\* 3 + 4 * 5 == 3 * 1 + 4 * 5
PrecExample4 ==
    TBin("==", TBin("+", Lit(3), TBin("*", Lit(4), Lit(5))),
         TBin("+", TBin("*", Lit(3), Lit(1)), TBin("*", Lit(4), Lit(5))))

\* the expressions with up to n operators, and the quoted ones
PrecTrees(n) ==
    TreesUpTo(n, {Id("a")}, PrefixOps, BinaryOps, TRUE)
    \cup {PrecExample1, PrecExample2, PrecExample3, PrecExample4}

PrecSources(n) == {[tree |-> t, full |-> f] : t \in PrecTrees(n), f \in BOOLEAN}

InitPrec == \E c \in PrecSources(MaxOps) : InitOn(c, Unparse(c.tree, 0, c.full))

SpecPrec == InitPrec /\ [][Next]_vars

\* C1: every expression parses, without diagnostics, to the tree the
\* precedence table dictates: tighter operators bind first, equal ones group
\* left to right, a parenthesised operand stays one operand; the quoted
\* expressions render as the tests say.
PrecedenceDictatesTree ==
    pc # "read" =>
        /\ errors = <<>>
        /\ program = ProgramAst(<<TExp(source.tree)>>, source.full)
        /\ source.tree = PrecExample1 =>
               String(program) = "(((a + (b * c)) + (d / e)) - f)"
        /\ source.tree = PrecExample2 => String(program) = "((-a) * b)"
        /\ source.tree = PrecExample3 => String(program) = "((a + add((b * c))) + d)"

\* a + b * c + d / e - f, written without parentheses, has been parsed
PrecedenceWitness ==
    /\ pc = "parsed"
    /\ source.tree = PrecExample1
    /\ ~source.full
    /\ Len(input) = 11
    /\ String(program) = "(((a + (b * c)) + (d / e)) - f)"

(***************************************************************************)
(* Specification SpecArith: the lines are integer expressions over the     *)
(* literals 7 and 2 with prefix -, the four arithmetic operators and       *)
(* parentheses (a divisor such as 2 - 2 is zero), the expression of        *)
(* TestEvalIntegerExpression the claims quote, and 7 / 0.                  *)
(***************************************************************************)
\* (5 + 10 * 2 + 15 / 3) * 2 + -10
ArithExample ==
    TBin("+", TBin("*", TBin("+", TBin("+", Lit(5), TBin("*", Lit(10), Lit(2))),
                             TBin("/", Lit(15), Lit(3))), Lit(2)),
         TPre("-", Lit(10)))
\* -7 / 2
NegativeQuotient == TBin("/", TPre("-", Lit(7)), Lit(2))
\* 7 / 0
ZeroDivisor == TBin("/", Lit(7), Lit(0))

\* the expressions with up to n operators, and the quoted ones
ArithTrees(n) ==
    TreesUpTo(n, {Lit(7), Lit(2)}, {"-"}, {"+", "-", "*", "/"}, FALSE)
    \cup {ArithExample, ZeroDivisor}

ArithSources(n) == {[tree |-> t, full |-> f] : t \in ArithTrees(n), f \in BOOLEAN}

InitArith == \E c \in ArithSources(MaxOps) : InitOn(c, Unparse(c.tree, 0, c.full))

SpecArith == InitArith /\ [][Next]_vars

Abs(n) == IF n < 0 THEN -n ELSE n

\* the quotient of a by b (b # 0) rounded toward zero: the one q whose
\* remainder a - q * b is smaller than b and zero or of the sign of a
Truncated(a, b) ==
    CHOOSE q \in -Abs(a)..Abs(a) :
        LET r == a - q * b
        IN Abs(r) < Abs(b) /\ (r = 0 \/ (r < 0) = (a < 0))

RECURSIVE Arithmetic(_)
\* the value arithmetic gives tree t; ok is FALSE when t divides by zero
Arithmetic(t) ==
    CASE t.k = "leaf" -> [ok |-> TRUE, v |-> LeafValue(t.tok)]
      [] t.k = "pre" ->
            LET r == Arithmetic(t.r) IN [ok |-> r.ok, v |-> -r.v]
      [] t.k = "bin" ->
            LET l == Arithmetic(t.l)
                r == Arithmetic(t.r)
            IN IF ~l.ok \/ ~r.ok THEN [ok |-> FALSE, v |-> 0]
               ELSE CASE t.op = "+" -> [ok |-> TRUE, v |-> l.v + r.v]
                      [] t.op = "-" -> [ok |-> TRUE, v |-> l.v - r.v]
                      [] t.op = "*" -> [ok |-> TRUE, v |-> l.v * r.v]
                      [] t.op = "/" ->
                            IF r.v = 0 THEN [ok |-> FALSE, v |-> 0]
                            ELSE [ok |-> TRUE, v |-> Truncated(l.v, r.v)]

\* C2: an integer expression without a zero divisor parses without
\* diagnostics and evaluates to the Integer that precedence-respecting,
\* left-to-right arithmetic with division truncated toward zero gives;
\* -7 / 2 is -3 and (5 + 10 * 2 + 15 / 3) * 2 + -10 is 50.
IntegerArithmetic ==
    /\ pc # "read" => errors = <<>>
    /\ pc = "done" /\ Arithmetic(source.tree).ok =>
          result = NewInteger(Arithmetic(source.tree).v)
    /\ pc = "done" /\ source.tree = NegativeQuotient => result = NewInteger(-3)
    /\ pc = "done" /\ source.tree = ArithExample => result = NewInteger(50)

\* -7 / 2 has been evaluated to -3
IntegerArithmeticWitness ==
    /\ pc = "done"
    /\ source.tree = NegativeQuotient
    /\ ~source.full
    /\ Arithmetic(source.tree).ok
    /\ result = NewInteger(-3)

\* C8: evaluating / on two Integer operands, a zero divisor included, returns
\* an Integer or an Error object.
DivisionReturnsObject ==
    pc = "done" => result.Type \in {IntegerObj, ErrorObj}

(***************************************************************************)
(* Specification SpecNest: the lines nest a statement (return, let or      *)
(* expression statement of a value or of a failing expression) in          *)
(* if-expressions and in bodies of functions called on the spot, each      *)
(* level and the program followed by return 1 or by let after = 1;         *)
(* together with the programs of the tests the claims quote.               *)
(***************************************************************************)
\* the deepest nesting of a generated program
MaxDepth == 2

NestCond == TBin(">", Lit(10), Lit(1))
ValueLeaf == Lit(10)
\* true + false
ErrorLeaf == TBin("+", TLeaf(Word("true")), TLeaf(Word("false")))

ReturnOne == TRet(Lit(1))
LetAfter == TLet("after", Lit(1))
Posts == {<<ReturnOne>>, <<LetAfter>>}

RECURSIVE NestExprs(_, _), NestStmts(_, _)
NestExprs(d, leaf) ==
    IF d = 0 THEN {leaf}
    ELSE LET S == NestStmts(d - 1, leaf)
         IN {leaf}
            \cup {TIf(NestCond, <<s>> \o post) : s \in S, post \in Posts}
            \cup {TCall(TFn(<<>>, <<s>> \o post), <<>>) : s \in S, post \in Posts}

NestStmts(d, leaf) ==
    LET E == NestExprs(d, leaf)
    IN {TRet(e) : e \in E} \cup {TLet("x", e) : e \in E} \cup {TExp(e) : e \in E}

NestPrograms(d, leaf) == {<<s>> \o post : s \in NestStmts(d, leaf), post \in Posts}

\* if (10 > 1) { if (10 > 1) { return 10; } return 1; }
NestedReturn ==
    <<TExp(TIf(NestCond, <<TExp(TIf(NestCond, <<TRet(ValueLeaf)>>)), ReturnOne>>))>>
\* if (10 > 1) { if (10 > 1) { return true + false; } return 1; }
NestedError ==
    <<TExp(TIf(NestCond, <<TExp(TIf(NestCond, <<TRet(ErrorLeaf)>>)), ReturnOne>>))>>
\* if (10 > 1) { let x = if (10 > 1) { return 10; }; return 1; }
ReturnInLet ==
    <<TExp(TIf(NestCond, <<TLet("x", TIf(NestCond, <<TRet(ValueLeaf)>>)), ReturnOne>>))>>
\* return if (10 > 1) { return 10; };
ReturnInReturn == <<TRet(TIf(NestCond, <<TRet(ValueLeaf)>>))>>

NestSources(d) ==
    {[stmts |-> p, leaf |-> "value"] :
        p \in NestPrograms(d, ValueLeaf) \cup {NestedReturn, ReturnInLet, ReturnInReturn}}
    \cup {[stmts |-> p, leaf |-> "error"] :
             p \in NestPrograms(d, ErrorLeaf) \cup {NestedError}}

InitNest == \E c \in NestSources(MaxDepth) : InitProgram(c, c.stmts)

SpecNest == InitNest /\ [][Next]_vars

\* one of the statements return 1 and let after = 1 has been handed to Eval
PostEvaluated ==
    \E i \in 1..Len(log) :
        log[i] \in {TreeAst(ReturnOne, FALSE), TreeAst(LetAfter, FALSE)}

RECURSIVE Unwinding(_, _, _, _)
\* What a statement sequence of a value program does from statement i on when
\* a return unwinds every enclosing block up to the nearest function body or
\* the program: k is "return" when a return is on its way up, v the value, ran
\* whether return 1 or let after = 1 was executed.
Unwinding(stmts, i, last, ran) ==
    IF i > Len(stmts) THEN [k |-> "value", v |-> last, ran |-> ran]
    ELSE
      LET s == stmts[i]
          ran1 == ran \/ s \in {ReturnOne, LetAfter}
          r == CASE s.e.k = "leaf" ->
                      [k |-> "value", v |-> NewInteger(LeafValue(s.e.tok)),
                       ran |-> ran1]
                 [] s.e.k = "if" -> Unwinding(s.e.cons, 1, NilObj, ran1)
                 [] s.e.k = "call" ->
                      [Unwinding(s.e.f.body, 1, NilObj, ran1) EXCEPT !.k = "value"]
          done == CASE r.k = "return" -> r
                    [] s.k = "ret" -> [r EXCEPT !.k = "return"]
                    [] s.k = "let" -> [r EXCEPT !.v = NilObj]
                    [] s.k = "exp" -> r
      IN IF done.k = "return" THEN done
         ELSE Unwinding(stmts, i + 1, done.v, done.ran)

\* C3: a return executed inside nested blocks stops every enclosing block up
\* to the nearest function body or the program: the returned value is the
\* result and no statement after the enclosing if-expression is evaluated;
\* the nested if with return 10 followed by return 1 yields 10.
ReturnStopsEnclosingBlocks ==
    pc = "done" /\ source.leaf = "value" =>
        LET r == Unwinding(source.stmts, 1, NilObj, FALSE)
        IN /\ result = r.v
           /\ PostEvaluated = r.ran
           /\ source.stmts = NestedReturn => result = NewInteger(10)

RECURSIVE StatementNest(_)
\* every if-expression of the statements is itself a statement (it is not
\* the value of a let or of a return)
StatementNest(stmts) ==
    \A i \in 1..Len(stmts) :
        LET s == stmts[i]
        IN CASE s.e.k = "if" -> s.k = "exp" /\ StatementNest(s.e.cons)
             [] s.e.k = "call" -> StatementNest(s.e.f.body)
             [] OTHER -> TRUE

\* the programs of which the return property holds: those whose
\* if-expressions are all statements
ReturnStopsStatementNests ==
    StatementNest(source.stmts) => ReturnStopsEnclosingBlocks

\* C4: a statement that evaluates to an Error stops its sequence and every
\* enclosing one and the Error is the result: no later statement is
\* evaluated and no let binds its name.
ErrorStopsSequences ==
    pc = "done" /\ source.leaf = "error" =>
        /\ result = NewError("unknown operator: BOOLEAN + BOOLEAN")
        /\ ~PostEvaluated
        /\ ~Bound("after")
        /\ ~Bound("x")

\* the nested if with return true + false followed by return 1 has been
\* evaluated to the Error
ErrorStopsSequencesWitness ==
    /\ pc = "done"
    /\ source.leaf = "error"
    /\ source.stmts = NestedError
    /\ \E i \in 1..Len(log) : log[i] = TreeAst(TRet(ErrorLeaf), FALSE)
    /\ result = NewError("unknown operator: BOOLEAN + BOOLEAN")

\* C10: the result of evaluating a Program and the result of every function
\* call is never a ReturnValue object.
ReturnValueNeverEscapes ==
    pc = "done" =>
        /\ result.Type # ReturnValueObj
        /\ \A i \in 1..Len(calls) : calls[i].Type # ReturnValueObj

(***************************************************************************)
(* Specification SpecOperand: the lines put a failing expression in an     *)
(* operand position of a prefix, infix, index, call or if node, nested up  *)
(* to MaxWrap deep, as an expression statement, the value of a return or   *)
(* the value of a let.  The operands after the failing one are the literal *)
(* 1, the ones before it the literal 2.                                    *)
(***************************************************************************)
\* the deepest nesting of operand positions
MaxWrap == 2

Later == Lit(1)
Earlier == Lit(2)

Failing ==
    {[e |-> ErrorLeaf, msg |-> "unknown operator: BOOLEAN + BOOLEAN"],
     [e |-> Id("missing"), msg |-> "identifier not found: missing"],
     [e |-> TPre("-", TLeaf(Word("true"))), msg |-> "unknown operator: -BOOLEAN"]}

\* the nodes with x as an operand
Wrap(x) ==
    {TPre("!", x), TPre("-", x),
     TBin("+", x, Later), TBin("+", Earlier, x),
     TIndex(x, Later), TIndex(Earlier, x),
     TCall(x, <<Later>>),
     TCall(Id("len"), <<x, Later>>), TCall(Id("len"), <<Earlier, x, Later>>),
     TIfElse(x, <<TExp(Later)>>, <<TExp(Later)>>)}

RECURSIVE Wrapped(_, _)
Wrapped(d, x) ==
    IF d = 0 THEN {x}
    ELSE LET W == Wrapped(d - 1, x) IN W \cup UNION {Wrap(w) : w \in W}

OperandSources(d) ==
    UNION {UNION {{[stmts |-> <<s>>, msg |-> f.msg] :
                     s \in {TExp(w), TRet(w), TLet("x", w)}} :
                  w \in Wrapped(d, f.e)} :
           f \in Failing}

InitOperand == \E c \in OperandSources(MaxWrap) : InitProgram(c, c.stmts)

SpecOperand == InitOperand /\ [][Next]_vars

\* C5: an Error from an operand of a prefix, infix, index, call, if, return
\* or let node is the node's result, message unchanged, and the operands
\* that come later are not evaluated (nor is the name of the let bound).
ErrorPropagatesUnchanged ==
    pc = "done" =>
        /\ result = NewError(source.msg)
        /\ ~Evaluated(1)
        /\ ~Bound("x")

\* let x = len(2, -true, 1); has been evaluated: the Error of -true is the
\* result, the argument after it was not evaluated
ErrorPropagatesWitness ==
    /\ pc = "done"
    /\ source.stmts =
          <<TLet("x", TCall(Id("len"), <<Earlier, TPre("-", TLeaf(Word("true"))), Later>>))>>
    /\ Evaluated(2)
    /\ ~Evaluated(1)
    /\ result = NewError("unknown operator: -BOOLEAN")

(***************************************************************************)
(* Specification SpecTypes: the lines are one infix operator between, or   *)
(* one prefix operator before, operands of the types Integer, Boolean,     *)
(* String, Null, Function and Builtin.                                     *)
(***************************************************************************)
OperandTypes == {IntegerObj, BooleanObj, StringObj, NullObj, FunctionObj, BuiltinObj}

\* an expression whose value has the given type
OperandOf(type) ==
    CASE type = IntegerObj -> Lit(5)
      [] type = BooleanObj -> TLeaf(Word("true"))
      [] type = StringObj -> TLeaf(Str("a"))
      [] type = NullObj -> TIf(TLeaf(Word("false")), <<TExp(Lit(5))>>)
      [] type = FunctionObj -> TFn(<<"x">>, <<TExp(Id("x"))>>)
      [] type = BuiltinObj -> Id("len")

TypeSources ==
    {[kind |-> "infix", op |-> op, left |-> l, right |-> r] :
        op \in BinaryOps, l \in OperandTypes, r \in OperandTypes}
    \cup {[kind |-> "prefix", op |-> op, left |-> "", right |-> r] :
            op \in PrefixOps, r \in OperandTypes}

TypeProgram(c) ==
    IF c.kind = "infix"
    THEN <<TExp(TBin(c.op, OperandOf(c.left), OperandOf(c.right)))>>
    ELSE <<TExp(TPre(c.op, OperandOf(c.right)))>>

InitTypes == \E c \in TypeSources : InitProgram(c, TypeProgram(c))

SpecTypes == InitTypes /\ [][Next]_vars

\* the infix operators evalInfixExpression computes for two operands of type
DefinedFor(type) ==
    CASE type = IntegerObj -> BinaryOps
      [] type = StringObj -> {"+"}
      [] OTHER -> {"==", "!="}

TypeMismatch(c) ==
    NewError("type mismatch: " \o c.left \o " " \o c.op \o " " \o c.right)
UnknownOperator(c) ==
    NewError("unknown operator: " \o c.left \o " " \o c.op \o " " \o c.right)

\* C6, as stated: an infix operation on operands of different types yields
\* the type mismatch Error; operands of one type under an operator not
\* defined for it yield the unknown operator Error; prefix - on a
\* non-Integer yields unknown operator: -TYPE.
OperatorErrors ==
    pc = "done" =>
        /\ source.kind = "infix" /\ source.left # source.right =>
              result = TypeMismatch(source)
        /\ source.kind = "infix" /\ source.left = source.right
              /\ source.op \notin DefinedFor(source.left) =>
              result = UnknownOperator(source)
        /\ source.kind = "prefix" /\ source.op = "-" /\ source.right # IntegerObj =>
              result = NewError("unknown operator: -" \o source.right)

\* C6, amended: the same for the operators other than == and != (which yield
\* no Error on operands of different types); operands of one type under an
\* operator defined for it yield no Error.
OperatorErrorsBesidesEquality ==
    pc = "done" =>
        /\ source.kind = "infix" /\ source.left # source.right
              /\ source.op \notin {"==", "!="} =>
              result = TypeMismatch(source)
        /\ source.kind = "infix" /\ source.left # source.right
              /\ source.op \in {"==", "!="} =>
              result.Type # ErrorObj
        /\ source.kind = "infix" /\ source.left = source.right
              /\ source.op \notin DefinedFor(source.left) =>
              result = UnknownOperator(source)
        /\ source.kind = "infix" /\ source.left = source.right
              /\ source.op \in DefinedFor(source.left) =>
              result.Type # ErrorObj
        /\ source.kind = "prefix" /\ source.op = "-" /\ source.right # IntegerObj =>
              result = NewError("unknown operator: -" \o source.right)

\* 5 + true, true + true and -true have their Errors
OperatorErrorsWitness ==
    /\ pc = "done"
    /\ \/ /\ source = [kind |-> "infix", op |-> "+", left |-> IntegerObj,
                       right |-> BooleanObj]
          /\ result = NewError("type mismatch: INTEGER + BOOLEAN")
       \/ /\ source = [kind |-> "infix", op |-> "+", left |-> BooleanObj,
                       right |-> BooleanObj]
          /\ result = NewError("unknown operator: BOOLEAN + BOOLEAN")
       \/ /\ source = [kind |-> "prefix", op |-> "-", left |-> "",
                       right |-> BooleanObj]
          /\ result = NewError("unknown operator: -BOOLEAN")

\* C7, as stated: operands of different types yield the type mismatch Error
\* under every infix operator, == and != included.
MismatchUnderEveryOperator ==
    pc = "done" /\ source.kind = "infix" /\ source.left # source.right =>
        result = TypeMismatch(source)

\* C7, amended: operands of different types yield the type mismatch Error
\* under every infix operator except == and !=; under == they yield the
\* Boolean false and under != the Boolean true.
MismatchExceptEquality ==
    pc = "done" /\ source.kind = "infix" /\ source.left # source.right =>
        CASE source.op = "==" -> result = False
          [] source.op = "!=" -> result = True
          [] OTHER -> result = TypeMismatch(source)

\* 5 == true has been evaluated to false
MismatchExceptEqualityWitness ==
    /\ pc = "done"
    /\ source = [kind |-> "infix", op |-> "==", left |-> IntegerObj,
                 right |-> BooleanObj]
    /\ String(program) = "(5 == true)"
    /\ result = False

(***************************************************************************)
(* Specification SpecCall: the lines call a function of up to MaxParams    *)
(* parameters with up to MaxArgs arguments (the literals 11, 12, ...),     *)
(* the function literal called on the spot or bound by let first; the body *)
(* is the literal 5 or one of the parameters.                              *)
(***************************************************************************)
MaxParams == 2
MaxArgs == 3

ParamNames == <<"x", "y", "z", "w">>

CallSources(maxParams, maxArgs) ==
    {c \in [params : 0..maxParams, args : 0..maxArgs, body : 0..maxParams,
            bound : BOOLEAN] : c.body <= c.params}

\* the statements of a source: body 0 is the literal 5, body b parameter b
CallProgram(c) ==
    LET fn == TFn(SubSeq(ParamNames, 1, c.params),
                  <<TExp(IF c.body = 0 THEN Lit(5) ELSE Id(ParamNames[c.body]))>>)
        args == [i \in 1..c.args |-> Lit(10 + i)]
    IN IF c.bound
       THEN <<TLet("f", fn), TExp(TCall(Id("f"), args))>>
       ELSE <<TExp(TCall(fn, args))>>

InitCall ==
    \E c \in CallSources(MaxParams, MaxArgs) : InitProgram(c, CallProgram(c))

SpecCall == InitCall /\ [][Next]_vars

\* C9: a call with an argument count different from the parameter count never
\* faults and returns an Object: extra arguments are ignored and the
\* supplied arguments are bound positionally.
ArityMismatchPermitted ==
    pc = "done" =>
        /\ ~IsPanic(result)
        /\ ~IsNilObj(result)
        /\ source.body = 0 => result = NewInteger(5)
        /\ source.body > 0 /\ source.body <= source.args =>
              result = NewInteger(10 + source.body)


(***************************************************************************)
(* Specification SpecStore: the lines are an array literal of up to        *)
(* MaxElems elements or a hash literal of one pair, as an expression       *)
(* statement or bound by let and read back, and the element expressions    *)
(* on their own.  An element is 1, a string, if (true) { return 1; },      *)
(* true + false or an unbound identifier.                                  *)
(***************************************************************************)
MaxElems == 2

\* if (true) { return 1; }
Escaping == TIf(TLeaf(Word("true")), <<TRet(Lit(1))>>)
\* true + false
Erring == TBin("+", TLeaf(Word("true")), TLeaf(Word("false")))

StoreElems == {Lit(1), TLeaf(Str("a")), Escaping, Erring, Id("foobar")}

RECURSIVE SeqsOf(_, _)
\* the sequences of exactly n members of set
SeqsOf(set, n) ==
    IF n = 0 THEN {<<>>}
    ELSE {Append(s, x) : s \in SeqsOf(set, n - 1), x \in set}

StoreExprs(n) ==
    StoreElems
    \cup UNION {{TArray(s) : s \in SeqsOf(StoreElems, i)} : i \in 0..n}
    \cup {THash(<<<<key, value>>>>) : key \in StoreElems, value \in StoreElems}

StoreSources(n) ==
    {[stmts |-> <<TExp(e)>>] : e \in StoreExprs(n)}
    \cup {[stmts |-> <<TLet("a", e), TExp(Id("a"))>>] : e \in StoreExprs(n)}

InitStore == \E c \in StoreSources(MaxElems) : InitProgram(c, c.stmts)

SpecStore == InitStore /\ [][Next]_vars

RECURSIVE Holds(_, _)
\* an element of an Array or a key or a value of a Hash, at any depth of
\* obj, is of one of the given types
Holds(obj, types) ==
    CASE obj.Type = ArrayObj ->
            \E i \in 1..Len(obj.Elements) :
                obj.Elements[i].Type \in types \/ Holds(obj.Elements[i], types)
      [] obj.Type = HashObj ->
            \E k \in DOMAIN obj.Pairs :
                \/ obj.Pairs[k].Key.Type \in types
                \/ obj.Pairs[k].PairValue.Type \in types
                \/ Holds(obj.Pairs[k].Key, types)
                \/ Holds(obj.Pairs[k].PairValue, types)
      [] obj.Type = ReturnValueObj -> Holds(obj.Wrapped, types)
      [] OTHER -> FALSE

\* the result of the evaluation or a binding of a frame holds one of types
Stored(types) ==
    \/ Holds(result, types)
    \/ \E e \in 1..Len(heap) : \E name \in DOMAIN heap[e].store :
          Holds(heap[e].store[name], types)

\* C11: no element of an Array and no key or value of a Hash is an Error or
\* a ReturnValue, also when an element or value expression is an
\* if-expression whose block executes return.
NothingTransientStored == ~Stored({ErrorObj, ReturnValueObj})

\* the half of C11 the evaluator keeps: no Error is stored in an Array or a
\* Hash, and no ReturnValue is the key of a Hash
NoErrorStored ==
    /\ ~Stored({ErrorObj})
    /\ pc = "done" /\ result.Type = HashObj =>
          \A k \in DOMAIN result.Pairs : result.Pairs[k].Key.Type # ReturnValueObj

(***************************************************************************)
(* Specification SpecEnv: the lines define functions and call them, over   *)
(* integers from -MaxAddend to MaxAddend: the adder of                     *)
(* TestClosures, two adders made by separate calls, functions that read a  *)
(* name bound after their literal was evaluated or call themselves,        *)
(* functions called from a function with local bindings, functions whose   *)
(* parameters and lets shadow outer names, and lookups of the name len.    *)
(***************************************************************************)
MaxAddend == 2

\* the deepest self call of the countdown function
MaxRecursion == 1

Addends(n) == (-n)..n

\* the literal of integer n (a negative one is written with prefix -)
IntTree(n) == IF n < 0 THEN TPre("-", Lit(-n)) ELSE Lit(n)

\* let newAdder = fn(x) { fn(y) { x + y }; };
NewAdder ==
    TLet("newAdder",
         TFn(<<"x">>, <<TExp(TFn(<<"y">>, <<TExp(TBin("+", Id("x"), Id("y")))>>))>>))

\* let newAdder = ...; let addTwo = newAdder(a); addTwo(b);
Adder(c) ==
    <<NewAdder,
      TLet("addTwo", TCall(Id("newAdder"), <<IntTree(c.a)>>)),
      TExp(TCall(Id("addTwo"), <<IntTree(c.b)>>))>>

\* let newAdder = ...; let addA = newAdder(a); let addB = newAdder(b);
\* and then addA(c) or addB(c)
Adders(c) ==
    <<NewAdder,
      TLet("addA", TCall(Id("newAdder"), <<IntTree(c.a)>>)),
      TLet("addB", TCall(Id("newAdder"), <<IntTree(c.b)>>)),
      TExp(TCall(Id(c.which), <<IntTree(c.c)>>))>>

AdderSources(n) ==
    {[kind |-> "adder", a |-> a, b |-> b] : a \in Addends(n), b \in Addends(n)}
    \cup {[kind |-> "adders", a |-> a, b |-> b, c |-> c, which |-> w] :
            a \in Addends(n), b \in Addends(n), c \in {0, 1}, w \in {"addA", "addB"}}

\* let g = fn() { late }; let late = a; g();
Late(c) ==
    <<TLet("g", TFn(<<>>, <<TExp(Id("late"))>>)),
      TLet("late", IntTree(c.a)),
      TExp(TCall(Id("g"), <<>>))>>

\* let late = a; let g = fn() { late }; let late = b; g();
Rebound(c) ==
    <<TLet("late", IntTree(c.a)),
      TLet("g", TFn(<<>>, <<TExp(Id("late"))>>)),
      TLet("late", IntTree(c.b)),
      TExp(TCall(Id("g"), <<>>))>>

\* let f = fn(n) { if (n == 0) { 0 } else { 1 + f(n - 1) } };
CountDown ==
    TLet("f",
         TFn(<<"n">>,
             <<TExp(TIfElse(TBin("==", Id("n"), Lit(0)),
                            <<TExp(Lit(0))>>,
                            <<TExp(TBin("+", Lit(1),
                                        TCall(Id("f"), <<TBin("-", Id("n"), Lit(1))>>)))>>))>>))

\* let f = ...; f(k);
Recursive(c) == <<CountDown, TExp(TCall(Id("f"), <<Lit(c.k)>>))>>

\* let mk = fn() { let f = ...; f(k); }; mk();
RecursiveLocal(c) ==
    <<TLet("mk", TFn(<<>>, <<CountDown, TExp(TCall(Id("f"), <<Lit(c.k)>>))>>)),
      TExp(TCall(Id("mk"), <<>>))>>

SharingSources(n) ==
    {[kind |-> "late", a |-> a] : a \in Addends(n)}
    \cup {[kind |-> "rebound", a |-> a, b |-> b] : a \in Addends(n), b \in Addends(n)}
    \cup {[kind |-> k, k |-> i] :
            k \in {"recursive", "recursiveLocal"}, i \in 0..MaxRecursion}

\* let callee = fn() { free }; let caller = fn(p) { let v = a; callee() };
\* caller(b);  with free one of v and p, after let free = g; when global
Lexical(c) ==
    (IF c.global THEN <<TLet(c.free, IntTree(c.g))>> ELSE <<>>)
    \o <<TLet("callee", TFn(<<>>, <<TExp(Id(c.free))>>)),
         TLet("caller", TFn(<<"p">>, <<TLet("v", IntTree(c.a)),
                                       TExp(TCall(Id("callee"), <<>>))>>)),
         TExp(TCall(Id("caller"), <<IntTree(c.b)>>))>>

LexicalSources(n) ==
    {[kind |-> "lexical", free |-> f, global |-> gl, g |-> g, a |-> a, b |-> a + 1] :
        f \in {"v", "p"}, gl \in BOOLEAN, g \in Addends(n), a \in Addends(n)}

\* let x = a; let p = b; let f = fn(p) { let x = c; let y = 1; x + p };
\* let r = f(d); x;
Shadow(c) ==
    <<TLet("x", IntTree(c.a)),
      TLet("p", IntTree(c.b)),
      TLet("f", TFn(<<"p">>, <<TLet("x", IntTree(c.c)), TLet("y", Lit(1)),
                               TExp(TBin("+", Id("x"), Id("p")))>>)),
      TLet("r", TCall(Id("f"), <<IntTree(c.d)>>)),
      TExp(Id("x"))>>

\* let outer = fn(x) { let inner = fn(x) { let x = c; x }; let r = inner(d); x };
\* outer(a);
ShadowLocal(c) ==
    <<TLet("outer",
           TFn(<<"x">>,
               <<TLet("inner", TFn(<<"x">>, <<TLet("x", IntTree(c.c)), TExp(Id("x"))>>)),
                 TLet("r", TCall(Id("inner"), <<IntTree(c.d)>>)),
                 TExp(Id("x"))>>)),
      TExp(TCall(Id("outer"), <<IntTree(c.a)>>))>>

ShadowSources(n) ==
    {[kind |-> k, a |-> a, b |-> a - 1, c |-> c, d |-> c + 1] :
        k \in {"shadow", "shadowLocal"}, a \in Addends(n), c \in Addends(n)}

\* let x = a; let y = b; x + y;
Sum(c) ==
    <<TLet("x", IntTree(c.a)), TLet("y", IntTree(c.b)),
      TExp(TBin("+", Id("x"), Id("y")))>>

\* name;  or  fn() { name }();
Missing(c) ==
    IF c.inner THEN <<TExp(TCall(TFn(<<>>, <<TExp(Id(c.name))>>), <<>>))>>
    ELSE <<TExp(Id(c.name))>>

\* len("a");  after  let len = fn(s) { a };  when shadowed
LenCall(c) ==
    (IF c.shadowed THEN <<TLet("len", TFn(<<"s">>, <<TExp(IntTree(c.a))>>))>> ELSE <<>>)
    \o <<TExp(TCall(Id("len"), <<TLeaf(Str("a"))>>))>>

\* let f = fn(len) { len }; f(a);
LenParam(c) ==
    <<TLet("f", TFn(<<"len">>, <<TExp(Id("len"))>>)),
      TExp(TCall(Id("f"), <<IntTree(c.a)>>))>>

\* let x = a; let f = fn(x) { x }; f(b);  (or fn() { x } and f() when ~c.param)
Innermost(c) ==
    <<TLet("x", IntTree(c.a)),
      TLet("f", TFn(IF c.param THEN <<"x">> ELSE <<>>, <<TExp(Id("x"))>>)),
      TExp(TCall(Id("f"), IF c.param THEN <<IntTree(c.b)>> ELSE <<>>))>>

LookupSources(n) ==
    {[kind |-> "sum", a |-> 5, b |-> 10]}
    \cup {[kind |-> "sum", a |-> a, b |-> b] : a \in Addends(n), b \in Addends(n)}
    \cup {[kind |-> "missing", name |-> nm, inner |-> i] :
            nm \in {"foobar", "x"}, i \in BOOLEAN}
    \cup {[kind |-> "lenCall", shadowed |-> sh, a |-> a] :
            sh \in BOOLEAN, a \in Addends(n)}
    \cup {[kind |-> "lenParam", a |-> a] : a \in Addends(n)}
    \cup {[kind |-> "innermost", param |-> pr, a |-> a, b |-> a + 1] :
            pr \in BOOLEAN, a \in Addends(n)}

EnvSources(n) ==
    AdderSources(n) \cup SharingSources(n) \cup LexicalSources(n)
    \cup ShadowSources(n) \cup LookupSources(n)

EnvProgram(c) ==
    CASE c.kind = "adder" -> Adder(c)
      [] c.kind = "adders" -> Adders(c)
      [] c.kind = "late" -> Late(c)
      [] c.kind = "rebound" -> Rebound(c)
      [] c.kind = "recursive" -> Recursive(c)
      [] c.kind = "recursiveLocal" -> RecursiveLocal(c)
      [] c.kind = "lexical" -> Lexical(c)
      [] c.kind = "shadow" -> Shadow(c)
      [] c.kind = "shadowLocal" -> ShadowLocal(c)
      [] c.kind = "sum" -> Sum(c)
      [] c.kind = "missing" -> Missing(c)
      [] c.kind = "lenCall" -> LenCall(c)
      [] c.kind = "lenParam" -> LenParam(c)
      [] c.kind = "innermost" -> Innermost(c)

InitEnv == \E c \in EnvSources(MaxAddend) : InitProgram(c, EnvProgram(c))

SpecEnv == InitEnv /\ [][Next]_vars

\* the line has been read without diagnostics and evaluated
Ran(kinds) == pc = "done" /\ source.kind \in kinds

\* C12: a function value keeps the environment of its definition after the
\* defining call has returned: let newAdder = fn(x) { fn(y) { x + y }; };
\* let addTwo = newAdder(a); addTwo(b); is a + b, and of two closures made by
\* separate calls of newAdder each sees its own x.
ClosureKeepsEnvironment ==
    /\ pc # "read" => errors = <<>>
    /\ Ran({"adder"}) => result = NewInteger(source.a + source.b)
    /\ Ran({"adders"}) =>
          result = NewInteger((IF source.which = "addA" THEN source.a ELSE source.b)
                              + source.c)

\* the first of two closures with different x has been called
ClosureWitness ==
    /\ Ran({"adders"})
    /\ source.which = "addA"
    /\ source.a = 2 /\ source.b = -1 /\ source.c = 1
    /\ result = NewInteger(3)

\* C13: a function value shares its defining environment: a name bound (or
\* bound again) in that environment after the function literal was evaluated
\* is what the body sees on a later call, and a function bound by let can
\* call itself.
EnvironmentIsShared ==
    /\ Ran({"late"}) => result = NewInteger(source.a)
    /\ Ran({"rebound"}) => result = NewInteger(source.b)
    /\ Ran({"recursive", "recursiveLocal"}) => result = NewInteger(source.k)
    /\ \A i \in 1..Len(effects) :
          effects[i].after[effects[i].env].outer = effects[i].fn.Env

\* a function defined in a local frame has called itself MaxRecursion times
EnvironmentIsSharedWitness ==
    /\ Ran({"recursiveLocal"})
    /\ source.k = MaxRecursion
    /\ Len(calls) = MaxRecursion + 2
    /\ result = NewInteger(MaxRecursion)

\* C14: the frame of an invocation has the captured environment as parent:
\* a free identifier of the body is resolved through the defining chain and
\* never in the caller's frame; a name bound only in the calling function's
\* frame is identifier not found in the callee.
ScopingIsLexical ==
    /\ \A i \in 1..Len(effects) :
          effects[i].after[effects[i].env].outer = effects[i].fn.Env
    /\ Ran({"lexical"}) /\ ~source.global =>
          result = NewError("identifier not found: " \o source.free)
    /\ Ran({"lexical"}) /\ source.global => result = NewInteger(source.g)

\* the callee has looked for a name that only the caller's frame binds
ScopingIsLexicalWitness ==
    /\ Ran({"lexical"})
    /\ ~source.global
    /\ source.free = "v"
    /\ \E e \in 1..Len(heap) : "v" \in DOMAIN heap[e].store
    /\ result = NewError("identifier not found: v")

\* the frames that existed when call i was entered are as they were when it
\* returned
FramesKept(i) ==
    \A e \in 1..Len(effects[i].before) : effects[i].after[e] = effects[i].before[e]

\* C15: a let or a parameter binding changes only the innermost frame: when
\* a call returns, every frame that existed before it (the enclosing frames
\* and the global one) is as it was, also when the body binds a name that
\* shadows an outer one; looking a name up changes no frame.
BindingsAreLocal ==
    /\ \A i \in 1..Len(effects) : FramesKept(i)
    /\ Ran({"shadow"}) =>
          /\ result = NewInteger(source.a)
          /\ heap[GlobalEnv].store["x"] = NewInteger(source.a)
          /\ heap[GlobalEnv].store["p"] = NewInteger(source.b)
          /\ heap[GlobalEnv].store["r"] = NewInteger(source.c + source.d)
          /\ "y" \notin DOMAIN heap[GlobalEnv].store
    /\ Ran({"shadowLocal"}) => result = NewInteger(source.a)
    /\ Ran({"missing"}) => \A e \in 1..Len(heap) : heap[e].store = <<>>
    /\ Ran({"lenCall"}) /\ ~source.shadowed => heap = NewEnvironment(<<>>).heap

\* a call whose parameter and let shadow global names has returned
BindingsAreLocalWitness ==
    /\ Ran({"shadow"})
    /\ source.a = 2 /\ source.c = -2
    /\ Len(effects) = 1
    /\ effects[1].after[effects[1].env].store["x"] = NewInteger(-2)
    /\ effects[1].after[effects[1].env].store["p"] = NewInteger(-1)
    /\ heap[GlobalEnv].store["x"] = NewInteger(2)
    /\ heap[GlobalEnv].store["p"] = NewInteger(1)

\* C16: an identifier is looked up in the environment chain, innermost frame
\* first, and only then among the built-ins: a binding named len shadows the
\* built-in; a name found in neither place is the Error identifier not
\* found: <name>; let x = 5; let y = 10; x + y; is 15.
IdentifierResolution ==
    /\ Ran({"sum"}) => result = NewInteger(source.a + source.b)
    /\ Ran({"sum"}) /\ source.a = 5 /\ source.b = 10 => result = NewInteger(15)
    /\ Ran({"missing"}) => result = NewError("identifier not found: " \o source.name)
    /\ Ran({"lenCall"}) =>
          result = IF source.shadowed THEN NewInteger(source.a) ELSE NewInteger(1)
    /\ Ran({"lenParam"}) => result = NewInteger(source.a)
    /\ Ran({"innermost"}) =>
          result = NewInteger(IF source.param THEN source.b ELSE source.a)

\* a function bound to the name len has been called in place of the built-in
IdentifierResolutionWitness ==
    /\ Ran({"lenCall"})
    /\ source.shadowed
    /\ source.a = 2
    /\ heap[GlobalEnv].store["len"].Type = FunctionObj
    /\ result = NewInteger(2)

(***************************************************************************)
(* Specification SpecIndex: the lines index an array literal of up to      *)
(* MaxElems elements by the integers from -2 to its length plus one, index *)
(* the hash literal of one pair by a key, are a hash literal of one or two *)
(* pairs, or are a key expression on its own.  The keys are integers,      *)
(* booleans and strings, written as literals and as computed values, and   *)
(* values of the types that are no hash keys.                              *)
(***************************************************************************)
\* two strings whose 64-bit FNV-1a digests are equal
Colliding1 == "8yn0iYCKYHlIj4-BwPqk"
Colliding2 == "GReLUrM4wMqfg9yzV3KQ"

Hashed(tree, val) == [tree |-> tree, hashable |-> TRUE, type |-> val.Type, val |-> val]
Unhashed(tree, type) == [tree |-> tree, hashable |-> FALSE, type |-> type]

\* key expressions with the value they denote
HashableKeys ==
    {Hashed(Lit(0), NewInteger(0)),
     Hashed(Lit(1), NewInteger(1)),
     Hashed(Lit(2), NewInteger(2)),
     Hashed(TBin("+", Lit(1), Lit(1)), NewInteger(2)),
     Hashed(TPre("-", Lit(1)), NewInteger(-1)),
     Hashed(TLeaf(Word("true")), True),
     Hashed(TLeaf(Word("false")), False),
     Hashed(TBin("<", Lit(1), Lit(2)), True),
     Hashed(TLeaf(Str("1")), NewString("1")),
     Hashed(TLeaf(Str("ab")), NewString("ab")),
     Hashed(TBin("+", TLeaf(Str("a")), TLeaf(Str("b"))), NewString("ab")),
     Hashed(TLeaf(Str(Colliding1)), NewString(Colliding1)),
     Hashed(TLeaf(Str(Colliding2)), NewString(Colliding2))}

\* [1], {}, fn() { 1 }, len and if (false) { 1 }
UnhashableKeys ==
    {Unhashed(TArray(<<Lit(1)>>), ArrayObj),
     Unhashed(THash(<<>>), HashObj),
     Unhashed(TFn(<<>>, <<TExp(Lit(1))>>), FunctionObj),
     Unhashed(Id("len"), BuiltinObj),
     Unhashed(TIf(TLeaf(Word("false")), <<TExp(Lit(1))>>), NullObj)}

\* [10, 11, ...] of n elements
ArrayOf(n) == TArray([j \in 1..n |-> Lit(10 + j - 1)])

IndexSources(n) ==
    UNION {{[kind |-> "array", n |-> len, i |-> i] : i \in (-2)..(len + 1)} :
           len \in 0..n}
    \cup {[kind |-> "hashIndex", stored |-> s, lookup |-> l] :
            s \in HashableKeys, l \in HashableKeys \cup UnhashableKeys}
    \cup {[kind |-> "literal", key |-> k] : k \in HashableKeys \cup UnhashableKeys}
    \cup {[kind |-> "literal2", key |-> k] : k \in HashableKeys \cup UnhashableKeys}
    \cup {[kind |-> "key", key |-> k] : k \in HashableKeys \cup UnhashableKeys}

IndexProgram(c) ==
    CASE c.kind = "array" -> <<TExp(TIndex(ArrayOf(c.n), IntTree(c.i)))>>
      [] c.kind = "hashIndex" ->
            <<TExp(TIndex(THash(<<<<c.stored.tree, Lit(7)>>>>), c.lookup.tree))>>
      [] c.kind = "literal" -> <<TExp(THash(<<<<c.key.tree, Lit(7)>>>>))>>
      [] c.kind = "literal2" ->
            <<TExp(THash(<<<<TLeaf(Str("a")), Lit(7)>>, <<c.key.tree, Lit(8)>>>>))>>
      [] c.kind = "key" -> <<TExp(c.key.tree)>>

InitIndex == \E c \in IndexSources(MaxElems) : InitProgram(c, IndexProgram(c))

SpecIndex == InitIndex /\ [][Next]_vars

\* C17: index access never faults: an Array indexed by an Integer i gives
\* element i when 0 <= i < length and Null otherwise (an empty array
\* included), and a Hash indexed by a hashable key it does not contain
\* gives Null.
IndexNeverFaults ==
    /\ Ran({"array", "hashIndex"}) => ~IsPanic(result)
    /\ Ran({"array"}) =>
          result = IF 0 <= source.i /\ source.i < source.n
                   THEN NewInteger(10 + source.i) ELSE Null
    /\ Ran({"hashIndex"}) /\ source.lookup.hashable
       /\ source.lookup.val # source.stored.val => result = Null

\* what of C17 the evaluator keeps: a Hash indexed by a hashable key gives
\* Null when no stored key has the HashKey of the index
MissingHashKeyIsNull ==
    /\ Ran({"array", "hashIndex"}) => ~IsPanic(result)
    /\ Ran({"array"}) =>
          result = IF 0 <= source.i /\ source.i < source.n
                   THEN NewInteger(10 + source.i) ELSE Null
    /\ Ran({"hashIndex"}) /\ source.lookup.hashable
       /\ HashKey(source.lookup.val) # HashKey(source.stored.val) => result = Null

\* the Error of a key that does not implement Hashable
Unusable(type) == NewError("unusable as hash key: " \o type)

\* hash is a Hash that holds the pair of key and value
HoldsPair(hash, key, value) ==
    /\ hash.Type = HashObj
    /\ HashKey(key) \in DOMAIN hash.Pairs
    /\ hash.Pairs[HashKey(key)] = HashPair(key, value)

\* C18: an Array, a Hash, a Function, a Builtin or Null as the key of a hash
\* literal or as the index of a Hash gives the Error unusable as hash key:
\* <TYPE> and no fault; Integer, Boolean and String keys are accepted.
UnusableHashKeys ==
    /\ Ran({"hashIndex", "literal", "literal2"}) => ~IsPanic(result)
    /\ Ran({"hashIndex"}) =>
          IF source.lookup.hashable THEN result \in {Null, NewInteger(7)}
          ELSE result = Unusable(source.lookup.type)
    /\ Ran({"literal"}) =>
          IF source.key.hashable
          THEN HoldsPair(result, source.key.val, NewInteger(7))
               /\ Cardinality(DOMAIN result.Pairs) = 1
          ELSE result = Unusable(source.key.type)
    /\ Ran({"literal2"}) =>
          IF source.key.hashable
          THEN /\ HoldsPair(result, source.key.val, NewInteger(8))
               /\ HoldsPair(result, NewString("a"), NewInteger(7))
               /\ Cardinality(DOMAIN result.Pairs) = 2
          ELSE result = Unusable(source.key.type)

\* a hash literal of two pairs has been given a function as its second key
UnusableHashKeysWitness ==
    /\ Ran({"literal2"})
    /\ source.key.type = FunctionObj
    /\ result = NewError("unusable as hash key: FUNCTION")

\* C19: the HashKey of an object depends on its type and value only: a
\* lookup with a newly made key of equal value finds the stored pair, and
\* keys of different types are different keys also when their digests are
\* equal (the Integer 1 and the Boolean true).
HashKeyByValue ==
    /\ Ran({"hashIndex"}) /\ source.lookup.hashable
       /\ source.lookup.val = source.stored.val => result = NewInteger(7)
    /\ Ran({"hashIndex"}) /\ source.lookup.hashable
       /\ source.lookup.type # source.stored.type => result = Null
    /\ Ran({"literal"}) /\ source.key.hashable =>
          \A k \in DOMAIN result.Pairs :
              /\ k.KeyType = source.key.type
              /\ k = HashKey(source.key.val)

\* the hash of the key 1 has been indexed by true, whose digest is equal
HashKeyByValueWitness ==
    /\ Ran({"hashIndex"})
    /\ source.lookup.hashable
    /\ source.stored.val = NewInteger(1)
    /\ source.lookup.val = True
    /\ HashKey(NewInteger(1)).Digest = HashKey(True).Digest
    /\ result = Null


(***************************************************************************)
(* Specification SpecTruthy: the lines apply !, !! and if, with and        *)
(* without an alternative, to a value of each type, written in place or    *)
(* bound by let first.                                                     *)
(***************************************************************************)
\* expressions with the type of their value and whether the value is one of
\* false and Null
Falsy(tree, type) == [tree |-> tree, type |-> type, falsy |-> TRUE]
Truthy(tree, type) == [tree |-> tree, type |-> type, falsy |-> FALSE]

TruthValues ==
    {Falsy(TLeaf(Word("false")), BooleanObj),
     Falsy(TBin(">", Lit(1), Lit(2)), BooleanObj),
     Falsy(TIf(TLeaf(Word("false")), <<TExp(Lit(1))>>), NullObj),
     Truthy(TLeaf(Word("true")), BooleanObj),
     Truthy(Lit(0), IntegerObj),
     Truthy(Lit(5), IntegerObj),
     Truthy(TPre("-", Lit(1)), IntegerObj),
     Truthy(TBin("-", Lit(1), Lit(1)), IntegerObj),
     Truthy(TLeaf(Str("")), StringObj),
     Truthy(TLeaf(Str("a")), StringObj),
     Truthy(TArray(<<>>), ArrayObj),
     Truthy(TArray(<<TLeaf(Word("false"))>>), ArrayObj),
     Truthy(THash(<<>>), HashObj),
     Truthy(TFn(<<>>, <<TExp(TLeaf(Word("false")))>>), FunctionObj),
     Truthy(Id("len"), BuiltinObj)}

TruthForms == {"not", "notnot", "if", "ifelse"}

TruthSources ==
    {[form |-> f, value |-> v, bound |-> b] :
        f \in TruthForms, v \in TruthValues, b \in BOOLEAN}

\* the form applied to operand x
TruthForm(form, x) ==
    CASE form = "not" -> TPre("!", x)
      [] form = "notnot" -> TPre("!", TPre("!", x))
      [] form = "if" -> TIf(x, <<TExp(Lit(10))>>)
      [] form = "ifelse" -> TIfElse(x, <<TExp(Lit(10))>>, <<TExp(Lit(20))>>)

TruthProgram(c) ==
    IF c.bound
    THEN <<TLet("v", c.value.tree), TExp(TruthForm(c.form, Id("v")))>>
    ELSE <<TExp(TruthForm(c.form, c.value.tree))>>

InitTruthy == \E c \in TruthSources : InitProgram(c, TruthProgram(c))

SpecTruthy == InitTruthy /\ [][Next]_vars

\* C20: exactly false and Null are falsy, every other value (0, strings,
\* arrays, hashes and functions included) is truthy; !v is true exactly when
\* v is falsy; if gives its consequence exactly when the condition is truthy,
\* else its alternative when there is one, else Null.
TruthinessIsUniform ==
    /\ pc # "read" => errors = <<>>
    /\ pc = "done" /\ source.form = "not" =>
          result = IF source.value.falsy THEN True ELSE False
    /\ pc = "done" /\ source.form = "notnot" =>
          result = IF source.value.falsy THEN False ELSE True
    /\ pc = "done" /\ source.form = "if" =>
          result = IF source.value.falsy THEN Null ELSE NewInteger(10)
    /\ pc = "done" /\ source.form = "ifelse" =>
          result = IF source.value.falsy THEN NewInteger(20) ELSE NewInteger(10)
    /\ pc = "done" /\ source.form \in {"if", "ifelse"} =>
          /\ Evaluated(10) <=> ~source.value.falsy
          /\ Evaluated(20) <=>
                (source.value.falsy /\ source.form = "ifelse")

\* if (0) { 10 } else { 20 } has given its consequence
TruthinessWitness ==
    /\ pc = "done"
    /\ source.form = "ifelse"
    /\ source.value.tree = Lit(0)
    /\ ~source.bound
    /\ Evaluated(10)
    /\ result = NewInteger(10)

(***************************************************************************)
(* Malformed lines: diagnostics and what the parser does after one.        *)
(***************************************************************************)
\* a statement the parser reports: its tokens up to and including its
\* semicolon, the construct and the token type it lacks (want is "" when the
\* fault is not a missing token) and the token found in its place
Fault(construct, want, got, toks) ==
    [construct |-> construct, want |-> want, got |-> got, toks |-> toks]

MissingToken ==
    { Fault("let", "IDENTIFIER", "=", <<Word("let"), Sym("="), Num(5), Sym(";")>>),
      Fault("let", "=", "INTEGER", <<Word("let"), Word("x"), Num(5), Sym(";")>>),
      Fault("let", "=", ";", <<Word("let"), Word("x"), Sym(";")>>),
      Fault("if", "(", "IDENTIFIER",
            <<Word("if"), Word("x"), Sym("{"), Num(5), Sym("}"), Sym(";")>>),
      Fault("if", ")", "{",
            <<Word("if"), Sym("("), Word("x"), Sym("{"), Num(5), Sym("}"), Sym(";")>>),
      Fault("if", "{", "INTEGER",
            <<Word("if"), Sym("("), Word("x"), Sym(")"), Num(5), Sym(";")>>),
      Fault("fn", "(", "IDENTIFIER",
            <<Word("fn"), Word("x"), Sym("{"), Num(5), Sym("}"), Sym(";")>>),
      Fault("fn", ")", "{",
            <<Word("fn"), Sym("("), Word("x"), Sym("{"), Num(5), Sym("}"), Sym(";")>>),
      Fault("fn", "{", "INTEGER",
            <<Word("fn"), Sym("("), Word("x"), Sym(")"), Num(5), Sym(";")>>),
      Fault("call", ")", ";", <<Word("x"), Sym("("), Num(5), Sym(";")>>),
      Fault("call", ")", ";",
            <<Word("x"), Sym("("), Num(5), Sym(","), Num(6), Sym(";")>>),
      Fault("group", ")", ";", <<Sym("("), Num(5), Sym("+"), Num(5), Sym(";")>>),
      Fault("group", ")", ";", <<Sym("("), Word("x"), Sym(";")>> ) }

MissingOperand ==
    { Fault("infix", "", ";", <<Num(5), Sym("+"), Sym(";")>>),
      Fault("prefix", "", ";", <<Sym("!"), Sym(";")>>),
      Fault("let value", "", ";", <<Word("let"), Word("x"), Sym("="), Sym(";")>>),
      Fault("return value", "", ";", <<Word("return"), Sym(";")>>),
      Fault("statement", "", ")", <<Sym(")"), Sym(";")>>) }

\* well-formed statements written after the reported one
Following ==
    { TLet("y", Lit(10)), TExp(Id("y")), TExp(TPre("-", Lit(3))),
      TExp(TPre("!", TLeaf(Word("true")))), TRet(Lit(7)),
      TExp(TBin("*", TBin("+", Lit(1), Lit(2)), Id("y"))) }

\* the most well-formed statements after the reported one
MaxFollowing == 1

RECURSIVE SeqsUpTo(_, _)
\* the sequences of at most n elements of S
SeqsUpTo(S, n) ==
    IF n = 0 THEN {<<>>}
    ELSE LET shorter == SeqsUpTo(S, n - 1)
         IN shorter \cup {Append(s, x) : s \in {t \in shorter : Len(t) = n - 1}, x \in S}

RecoverSources(n) ==
    {[kind |-> "recover", fault |-> f, after |-> a] :
        f \in MissingToken \cup MissingOperand, a \in SeqsUpTo(Following, n)}

\* the most tokens written between the parentheses of a function literal
MaxParamTokens == 3

ParamTokens == {Word("x"), Num(1), Sym(",")}

\* fn ( toks ) { }
ParamSources(n) ==
    {[kind |-> "params", toks |-> t] : t \in SeqsUpTo(ParamTokens, n)}

MalformedInput(src) ==
    CASE src.kind = "recover" -> src.fault.toks \o UnparseStmts(src.after, FALSE)
      [] src.kind = "params" ->
            <<Word("fn"), Sym("(")>> \o src.toks \o <<Sym(")"), Sym("{"), Sym("}")>>

InitMalformed ==
    \E src \in RecoverSources(MaxFollowing) \cup ParamSources(MaxParamTokens) :
        InitOn(src, MalformedInput(src))

SpecMalformed == InitMalformed /\ [][Next]_vars

Parsed(kind) == pc \in {"parsed", "rejected", "done"} /\ source.kind = kind

\* C21: a diagnostic raised in one top-level statement never stops the parse:
\* the diagnostics list is non-empty and every well-formed statement written
\* after the reported statement's semicolon is the tail of Program.Statements,
\* with the tree the grammar dictates.
DiagnosticKeepsLaterStatements ==
    Parsed("recover") =>
        LET n == Len(program.Statements)
            k == Len(source.after)
        IN /\ Len(errors) > 0
           /\ n >= k
           /\ SubSeq(program.Statements, n - k + 1, n)
                = ProgramAst(source.after, FALSE).Statements

\* the parse goes on after a diagnostic and the later statement is parsed
\* (holds: ParseProgram has no early return)
DiagnosticKeepsParsing ==
    Parsed("recover") =>
        /\ Len(errors) > 0
        /\ parser.curToken = EOFToken
        /\ Len(source.after) > 0 => Len(program.Statements) > 0

\* C22: the diagnostic for a missing token names the expected token type and
\* the type of the token found instead
MissingTokenMessage(want, got) ==
    "expected next token to be " \o want \o ", got " \o got \o " instead"

MissingTokenIsNamed ==
    Parsed("recover") /\ source.fault.want # "" =>
        /\ Len(errors) > 0
        /\ errors[1] = MissingTokenMessage(source.fault.want, source.fault.got)

\* the same for every construct but the grouped expression (holds)
MissingTokenIsNamedOutsideGroups ==
    Parsed("recover") /\ source.fault.want # "" /\ source.fault.construct # "group" =>
        /\ Len(errors) > 0
        /\ errors[1] = MissingTokenMessage(source.fault.want, source.fault.got)

\* C23: after a statement fails to parse, none of its remaining tokens is
\* parsed as a statement of its own: a let that lacks its name or its equals
\* sign contributes no statement, so Program.Statements holds the later
\* statements only.
FailedStatementIsSkipped ==
    Parsed("recover") /\ source.fault.construct = "let" =>
        program.Statements = ProgramAst(source.after, FALSE).Statements

RECURSIVE IdentifierList(_)
\* toks is a comma-separated list of identifiers
IdentifierList(toks) ==
    \/ Len(toks) = 1 /\ toks[1].Type = "IDENTIFIER"
    \/ /\ Len(toks) >= 3
       /\ toks[1].Type = "IDENTIFIER"
       /\ toks[2].Type = ","
       /\ IdentifierList(SubSeq(toks, 3, Len(toks)))

\* the function literal of a "params" line, when one was parsed
Literals ==
    {program.Statements[i].Expression : i \in
        {j \in 1..Len(program.Statements) :
            /\ program.Statements[j].Kind = "ExpressionStatement"
            /\ program.Statements[j].Expression.Kind = "FunctionLiteral"}}

\* C24: every parameter of a parsed function literal comes from an IDENTIFIER
\* token; any other token in parameter position produces a diagnostic; an
\* empty list gives zero parameters and no diagnostic.
ParametersAreIdentifiers ==
    Parsed("params") =>
        /\ \A f \in Literals : \A i \in 1..Len(f.Parameters) :
              f.Parameters[i].Token.Type = "IDENTIFIER"
        /\ (source.toks # <<>> /\ ~IdentifierList(source.toks)) => Len(errors) > 0
        /\ source.toks = <<>> =>
              /\ Len(errors) = 0
              /\ \A f \in Literals : f.Parameters = <<>>
              /\ Literals # {}

\* a well-formed parameter list is parsed as written (holds)
IdentifierListAccepted ==
    Parsed("params") /\ (source.toks = <<>> \/ IdentifierList(source.toks)) =>
        /\ Len(errors) = 0
        /\ \A f \in Literals :
              Len(f.Parameters) = (Len(source.toks) + 1) \div 2

(***************************************************************************)
(* Arbitrary token streams: the lookahead window and termination.          *)
(***************************************************************************)
\* the longest token stream of the exhaustive part
MaxTokens == 3

StreamTokens ==
    {Word("let"), Word("x"), Sym("="), Num(5), Sym(";"), Sym("("), Sym(")"),
     Sym("{"), Sym("}"), Sym(","), Sym("-"), Word("fn"), Word("if"), Word("else"),
     Word("return")}

\* well-formed lines; every prefix of each is a stream too (a block, a
\* parameter list or an argument list that is never closed)
Lines ==
    { UnparseStmts(<<TExp(TIfElse(Id("x"), <<TLet("x", Lit(5))>>, <<TExp(Id("x"))>>))>>,
                   FALSE),
      UnparseStmts(<<TExp(TCall(TFn(<<"x", "y">>, <<TRet(TBin("-", Id("x"), Id("y")))>>),
                                <<Lit(5), TPre("-", Lit(5))>>))>>, FALSE),
      UnparseStmts(<<TLet("x", TFn(<<>>, <<TExp(TIf(Lit(5), <<>>))>>)),
                     TExp(TCall(Id("x"), <<>>))>>, FALSE) }

StreamSources(n) ==
    {[kind |-> "stream", toks |-> t] : t \in SeqsUpTo(StreamTokens, n)}
    \cup UNION {{[kind |-> "stream", toks |-> SubSeq(l, 1, k)] : k \in 0..Len(l)} :
                l \in Lines}

InitStream == \E src \in StreamSources(MaxTokens) : InitOn(src, src.toks)

SpecStream == InitStream /\ [][Next]_vars

\* the tokenizer's output: token i of the input, EOF from the end on; token 0
\* stands for the zero Token the fields hold before the first nextToken
Stream(i) ==
    IF i = 0 THEN ZeroToken
    ELSE IF i <= Len(input) THEN input[i] ELSE EOFToken

\* C25: from construction on and after every nextToken, curToken is token i
\* and peekToken is token i + 1 of the tokenizer's output: the tokens are
\* taken in order, each once, none skipped or read again, and once curToken
\* is EOF it stays EOF.
LookaheadWindow ==
    pc # "read" /\ source.kind = "stream" =>
        /\ Len(parser.looks) >= 2
        /\ \A k \in 1..Len(parser.looks) :
              parser.looks[k] = <<Stream(k - 1), Stream(k)>>
        /\ parser.curToken = Stream(Len(parser.looks) - 1)
        /\ parser.peekToken = Stream(Len(parser.looks))
        /\ parser.l.position = IF Len(parser.looks) <= Len(input)
                               THEN Len(parser.looks) ELSE Len(input)
        /\ \A j, k \in 1..Len(parser.looks) :
              j <= k /\ parser.looks[j][1] = EOFToken => parser.looks[k][1] = EOFToken

\* some parse moved the window across a whole stream and past its end
LookaheadWitness ==
    /\ pc = "rejected"
    /\ source.kind = "stream"
    /\ Len(input) >= 3
    /\ Len(parser.looks) > Len(input) + 1
    /\ parser.looks[2] = <<input[1], input[2]>>

\* C28: ParseProgram terminates for every finite token stream: it has
\* returned, with curToken at EOF and every token of the stream taken; every
\* iteration of a loop of the parser started with a token of the stream in
\* the window and moved the window forward; a block that is never closed
\* ends at EOF (one more nextToken per open block, none after that).
ParseTerminates ==
    pc # "read" /\ source.kind = "stream" =>
        /\ program.Kind = "Program"
        /\ parser.curToken = EOFToken
        /\ Len(parser.looks) >= Len(input) + 1
        /\ Len(parser.looks) <= Len(input) + 3
              + Cardinality({i \in 1..Len(input) : input[i].Type = "{"})
        /\ \A i \in 1..Len(parser.turns) :
              /\ parser.turns[i][1] <= Len(input) + 1
              /\ parser.turns[i][2] > parser.turns[i][1]

\* a line whose block is never closed was parsed to its end: the block loop
\* and the loop of ParseProgram both ran
ParseTerminatesWitness ==
    /\ pc = "rejected"
    /\ source.kind = "stream"
    /\ Len(input) >= 5
    /\ input[Len(input)].Type # "}"
    /\ \E i \in 1..Len(input) : input[i].Type = "{"
    /\ Len(parser.turns) >= 2
    /\ parser.curToken = EOFToken

(***************************************************************************)
(* Rendering and parsing again.                                            *)
(***************************************************************************)
RECURSIVE Lexemes(_)
\* the lexemes of String(node) for an expression of identifiers, literals,
\* prefix and infix operators: String writes a blank on each side of an
\* infix operator and nothing else between lexemes
Lexemes(node) ==
    CASE node.Kind \in {"Identifier", "IntegerLiteral", "Boolean"} ->
            <<[text |-> String(node), blank |-> FALSE]>>
      [] node.Kind = "PrefixExpression" ->
            <<[text |-> "(", blank |-> FALSE], [text |-> node.Operator, blank |-> FALSE]>>
            \o Lexemes(node.Right) \o <<[text |-> ")", blank |-> FALSE]>>
      [] node.Kind = "InfixExpression" ->
            <<[text |-> "(", blank |-> FALSE]>> \o Lexemes(node.Left)
            \o <<[text |-> node.Operator, blank |-> TRUE]>>
            \o Lexemes(node.Right) \o <<[text |-> ")", blank |-> FALSE]>>

RECURSIVE Spell(_)
\* the text a lexeme sequence stands for
Spell(lexemes) ==
    IF Len(lexemes) = 0 THEN ""
    ELSE (IF lexemes[1].blank THEN " " \o lexemes[1].text \o " " ELSE lexemes[1].text)
         \o Spell(Tail(lexemes))

\* the token the tokenizer makes of one lexeme
Lex(text) ==
    IF \E n \in 0..MaxLiteral : ToString(n) = text THEN Tok("INTEGER", text)
    ELSE IF text \in {"(", ")"} \cup PrefixOps \cup BinaryOps THEN Sym(text)
    ELSE Word(text)

\* lexer.New(String(node)) read to its end
Tokenize(node) == [i \in 1..Len(Lexemes(node)) |-> Lex(Lexemes(node)[i].text)]

RenderLeaves == {Id("a"), Lit(5), TLeaf(Word("true"))}
RenderOps == {"-", "=="}

\* one expression, written with the parentheses the grammar requires or with
\* every operand parenthesised
RenderSources(n) ==
    {[kind |-> "render", tree |-> t, full |-> f] :
        t \in TreesUpTo(n, RenderLeaves, PrefixOps, RenderOps, FALSE), f \in BOOLEAN}

InitRender ==
    \E src \in RenderSources(MaxOps) : InitOn(src, Unparse(src.tree, 0, src.full))

SpecRender == InitRender /\ [][Next]_vars

\* C26: canonical rendering is a fixed point of parsing: the rendered text of
\* a parsed expression parses with zero diagnostics to an AST whose rendered
\* text is the same text.
RenderingIsFixedPoint ==
    pc \in {"parsed", "done"} /\ source.kind = "render" =>
        LET expr == program.Statements[1].Expression
            text == String(program)
            again == Parse(Tokenize(expr))
        IN /\ Len(program.Statements) = 1
           /\ Spell(Lexemes(expr)) = text
           /\ again.p.errors = <<>>
           /\ String(again.node) = text
           /\ String(Parse(Tokenize(again.node.Statements[1].Expression)).node) = text

\* a - (5 == true), written with the one pair of parentheses it needs, was
\* parsed and rendered with both pairs
RenderingWitness ==
    /\ pc = "parsed"
    /\ source.kind = "render"
    /\ source.tree = TBin("-", Id("a"), TBin("==", Lit(5), TLeaf(Word("true"))))
    /\ ~source.full
    /\ errors = <<>>
    /\ String(program) = "(a - (5 == true))"
    /\ Len(Tokenize(program.Statements[1].Expression)) = 9
    /\ Len(input) = 7

(***************************************************************************)
(* Expressions without a value: empty bodies and blocks that end in a let. *)
(***************************************************************************)
\* expressions whose selected block is empty or ends in a let statement
Valueless ==
    { [name |-> "empty body", tree |-> TCall(TFn(<<>>, <<>>), <<>>)],
      [name |-> "empty consequence", tree |-> TIf(TLeaf(Word("true")), <<>>)],
      [name |-> "empty alternative",
       tree |-> TIfElse(TLeaf(Word("false")), <<TExp(Lit(1))>>, <<>>)],
      [name |-> "consequence ends in let",
       tree |-> TIf(TLeaf(Word("true")), <<TExp(Lit(1)), TLet("a", Lit(1))>>)],
      [name |-> "body ends in let",
       tree |-> TCall(TFn(<<>>, <<TLet("a", Lit(1))>>), <<>>)] }

\* the same forms with a block that ends in an expression, and an if without
\* alternative whose condition is false
Valued ==
    { [name |-> "body", tree |-> TCall(TFn(<<>>, <<TExp(Lit(1))>>), <<>>)],
      [name |-> "consequence", tree |-> TIf(TLeaf(Word("true")), <<TExp(Lit(1))>>)],
      [name |-> "alternative",
       tree |-> TIfElse(TLeaf(Word("false")), <<TExp(Lit(1))>>, <<TExp(Lit(2))>>)],
      [name |-> "no alternative", tree |-> TIf(TLeaf(Word("false")), <<TExp(Lit(1))>>)],
      [name |-> "let then value",
       tree |-> TIf(TLeaf(Word("true")), <<TLet("a", Lit(1)), TExp(Id("a"))>>)] }

\* the places an expression's value is used in
Uses == {"alone", "-x", "!x", "x + 1", "1 + x", "x == x", "1 != x", "len(x)",
         "let", "if (x)", "return"}

UseOf(use, x) ==
    CASE use = "alone" -> <<TExp(x)>>
      [] use = "-x" -> <<TExp(TPre("-", x))>>
      [] use = "!x" -> <<TExp(TPre("!", x))>>
      [] use = "x + 1" -> <<TExp(TBin("+", x, Lit(1)))>>
      [] use = "1 + x" -> <<TExp(TBin("+", Lit(1), x))>>
      [] use = "x == x" -> <<TExp(TBin("==", x, x))>>
      [] use = "1 != x" -> <<TExp(TBin("!=", Lit(1), x))>>
      [] use = "len(x)" -> <<TExp(TCall(Id("len"), <<x>>))>>
      [] use = "let" -> <<TLet("v", x), TExp(Id("v"))>>
      [] use = "if (x)" -> <<TExp(TIfElse(x, <<TExp(Lit(10))>>, <<TExp(Lit(20))>>))>>
      [] use = "return" -> <<TRet(x)>>

AbsentSources(operands) ==
    {[kind |-> "absent", operand |-> o, valued |-> o \in Valued, use |-> u] :
        o \in operands, u \in Uses}

InitAbsent ==
    \E src \in AbsentSources(Valueless \cup Valued) : InitProgram(src, UseOf(src.use, src.operand.tree))

SpecAbsent == InitAbsent /\ [][Next]_vars

\* C27: Eval of every expression of a program parsed with zero diagnostics
\* returns a defined Object and never an absent value; the value of a call
\* of a function with an empty body, and of an if-expression whose selected
\* block is empty or ends in a let, can be the operand of a prefix or infix
\* operator without a fault.
EvalNeverAbsent ==
    pc = "done" /\ source.kind = "absent" =>
        /\ ~IsNilObj(result)
        /\ ~IsPanic(result)

\* it does so when the selected block ends in an expression statement, and
\* for an if without alternative whose condition is false (holds)
EvalOfValuedIsDefined ==
    pc = "done" /\ source.kind = "absent" /\ source.valued =>
        /\ ~IsNilObj(result)
        /\ ~IsPanic(result)

(***************************************************************************)
(* A let statement whose right-hand side evaluates to an Error.            *)
(***************************************************************************)
\* right-hand sides that evaluate to an Error; inner is the binding a let
\* statement inside the right-hand side makes before the Error arises
FailingValues ==
    { [name |-> "identifier", tree |-> Id("foo"), inner |-> <<>>],
      [name |-> "mismatch", tree |-> TBin("+", Lit(1), TLeaf(Word("true"))),
       inner |-> <<>>],
      [name |-> "prefix", tree |-> TPre("-", TLeaf(Word("true"))), inner |-> <<>>],
      [name |-> "not a function", tree |-> TCall(Lit(5), <<>>), inner |-> <<>>],
      [name |-> "builtin", tree |-> TCall(Id("len"), <<Lit(1)>>), inner |-> <<>>],
      [name |-> "operand", tree |-> TBin("+", Id("foo"), Lit(1)), inner |-> <<>>],
      [name |-> "block", tree |-> TIf(TLeaf(Word("true")), <<TExp(Id("foo"))>>),
       inner |-> <<>>] }

\* if (true) { let z = 1; foo } and if (true) { let x = 2; foo }
FailingAfterLet ==
    { [name |-> "let other", inner |-> <<"z", 1>>,
       tree |-> TIf(TLeaf(Word("true")), <<TLet("z", Lit(1)), TExp(Id("foo"))>>)],
      [name |-> "let same", inner |-> <<"x", 2>>,
       tree |-> TIf(TLeaf(Word("true")), <<TLet("x", Lit(2)), TExp(Id("foo"))>>)] }

\* where the failing let x = ... stands
Places == {"fresh", "rebind", "body", "body fresh", "param"}

LetProgram(place, rhs) ==
    CASE place = "fresh" -> <<TLet("k", Lit(7)), TLet("x", rhs), TExp(Lit(9))>>
      [] place = "rebind" -> <<TLet("x", Lit(1)), TLet("x", rhs), TExp(Id("x"))>>
      [] place = "body" ->
            <<TLet("x", Lit(1)),
              TLet("f", TFn(<<>>, <<TLet("x", rhs), TExp(Lit(2))>>)),
              TExp(TCall(Id("f"), <<>>))>>
      [] place = "body fresh" ->
            <<TLet("f", TFn(<<"p">>, <<TLet("x", rhs), TExp(Lit(2))>>)),
              TExp(TCall(Id("f"), <<Lit(3)>>))>>
      [] place = "param" ->
            <<TLet("f", TFn(<<"x">>, <<TLet("x", rhs), TExp(Lit(2))>>)),
              TExp(TCall(Id("f"), <<Lit(1)>>))>>

\* the frame the failing let is evaluated in
LetFrame(place) == IF place \in {"fresh", "rebind"} THEN 1 ELSE 2

\* the integer bindings of each frame when the failing let is reached (the
\* Function bound to f aside)
BindingsBefore(place) ==
    CASE place = "fresh" -> <<{<<"k", 7>>}>>
      [] place = "rebind" -> <<{<<"x", 1>>}>>
      [] place = "body" -> <<{<<"x", 1>>}, {}>>
      [] place = "body fresh" -> <<{}, {<<"p", 3>>}>>
      [] place = "param" -> <<{}, {<<"x", 1>>}>>

\* the integer bindings of frame e of the heap
Bindings(e) ==
    {<<n, heap[e].store[n].Value>> : n \in
        {m \in DOMAIN heap[e].store : heap[e].store[m].Type = IntegerObj}}

LetSources(rhs) ==
    {[kind |-> "let error", place |-> p, rhs |-> r] : p \in Places, r \in rhs}

InitLet ==
    \E src \in LetSources(FailingValues \cup FailingAfterLet) :
        InitProgram(src, LetProgram(src.place, src.rhs.tree))

SpecLet == InitLet /\ [][Next]_vars

\* C29: if the right-hand side of a let evaluates to an Error, the
\* environment is left unchanged: the name is not created, and an existing
\* binding of that name in any frame keeps its previous value.
LetErrorLeavesEnvironment ==
    pc = "done" /\ source.kind = "let error" =>
        /\ result.Type = ErrorObj
        /\ \A e \in 1..Len(BindingsBefore(source.place)) :
              /\ e <= Len(heap)
              /\ Bindings(e) = BindingsBefore(source.place)[e]
              /\ DOMAIN heap[e].store \subseteq
                    {b[1] : b \in BindingsBefore(source.place)[e]} \cup {"f"}

\* the bindings of frame e after the right-hand side was evaluated: the ones
\* before it, and the one a let inside the right-hand side made
BindingsAfterValue(e) ==
    LET before == BindingsBefore(source.place)[e]
        inner == source.rhs.inner
    IN IF e = LetFrame(source.place) /\ inner # <<>>
       THEN {b \in before : b[1] # inner[1]} \cup {inner}
       ELSE before

\* C29: if the right-hand side of a let evaluates to an Error, the statement
\* yields that Error and binds nothing: every frame is as the evaluation of
\* the right-hand side left it; when the right-hand side holds no let of its
\* own, the name is not created and an existing binding of it keeps its value.
LetErrorBindsNothing ==
    pc = "done" /\ source.kind = "let error" =>
        /\ result.Type = ErrorObj
        /\ \A e \in 1..Len(BindingsBefore(source.place)) :
              /\ e <= Len(heap)
              /\ Bindings(e) = BindingsAfterValue(e)
              /\ DOMAIN heap[e].store \subseteq
                    {b[1] : b \in BindingsAfterValue(e)} \cup {"f"}
        /\ \A e \in 1..Len(heap) : \A n \in DOMAIN heap[e].store :
              heap[e].store[n].Type # ErrorObj

\* let x = 1; let x = 1 + true; x; stopped at the Error with x still 1
LetErrorWitness ==
    /\ pc = "done"
    /\ source.kind = "let error"
    /\ source.place = "rebind"
    /\ source.rhs.name = "mismatch"
    /\ result = NewError("type mismatch: INTEGER + BOOLEAN")
    /\ Bindings(1) = {<<"x", 1>>}
    /\ ~Evaluated(9)

(***************************************************************************)
(* Hash literals and the order in which their pairs are visited.           *)
(***************************************************************************)
\* the most pairs of a generated hash literal
MaxPairs == 2

\* key expressions: two strings, two unbound names and an array
PairKeys ==
    { [tree |-> TLeaf(Str("a")), fails |-> FALSE],
      [tree |-> TLeaf(Str("b")), fails |-> FALSE],
      [tree |-> Id("foo"), fails |-> TRUE],
      [tree |-> Id("bar"), fails |-> TRUE],
      [tree |-> TArray(<<>>), fails |-> TRUE] }

PairValues ==
    { [tree |-> Lit(1), fails |-> FALSE],
      [tree |-> Lit(2), fails |-> FALSE],
      [tree |-> Id("baz"), fails |-> TRUE] }

PairChoices == {[key |-> k, value |-> v] : k \in PairKeys, v \in PairValues}

\* the literals of one to n pairs, alone and indexed by "a", and each key
\* expression as a line of its own
OrderSources(n) ==
    {[kind |-> k, pairs |-> p] :
        k \in {"hash", "hash index"}, p \in SeqsUpTo(PairChoices, n) \ {<<>>}}
    \cup {[kind |-> "key alone", pairs |-> <<p>>] : p \in PairChoices}

OrderProgram(src) ==
    LET literal == THash([i \in 1..Len(src.pairs) |->
                            <<src.pairs[i].key.tree, src.pairs[i].value.tree>>])
    IN CASE src.kind = "hash" -> <<TExp(literal)>>
         [] src.kind = "hash index" -> <<TExp(TIndex(literal, TLeaf(Str("a"))))>>
         [] src.kind = "key alone" -> <<TExp(src.pairs[1].key.tree)>>

InitOrder == \E src \in OrderSources(MaxPairs) : InitProgram(src, OrderProgram(src))

SpecOrder == InitOrder /\ [][Next]_vars

\* the object Eval returns when every range statement visits the pairs in
\* the order they are written in
InSourceOrder ==
    Eval(program, GlobalEnv,
         [heap |-> NewEnvironment(<<>>).heap, next |-> 1, log |-> <<>>,
          calls |-> <<>>, effects |-> <<>>, orders |-> <<>>, ranged |-> 0]).obj

\* C30: evaluating a hash literal is deterministic: whatever the order in
\* which the pairs are visited, the result is the one of the visit in source
\* order, also with duplicate keys and with more than one failing pair.
HashLiteralIsDeterministic ==
    pc = "done" /\ source.kind \in {"hash", "hash index"} => result = InSourceOrder

\* the pairs of the literal that yield an Error
FailingPairs ==
    {i \in 1..Len(source.pairs) : source.pairs[i].key.fails \/ source.pairs[i].value.fails}

\* two pairs of the literal have the same key
DuplicateKeys ==
    \E i, j \in 1..Len(source.pairs) :
        i # j /\ source.pairs[i].key.tree = source.pairs[j].key.tree

\* the result is the same in every order when the keys are distinct and no
\* pair fails, or exactly one pair fails (holds)
HashLiteralOrderFree ==
    /\ pc = "done"
    /\ source.kind \in {"hash", "hash index"}
    /\ \/ Cardinality(FailingPairs) = 0 /\ ~DuplicateKeys
       \/ Cardinality(FailingPairs) = 1
    => result = InSourceOrder
====
